---- MODULE Spec2Model ----
(***************************************************************************)
(* A model of the RAG application's backend: the chunk store writer        *)
(* (store_chunks.py), the retrieval-augmented query engine                 *)
(* (rag_functions.py) and the pipeline orchestrator (helpers/pdf_ingest.py *)
(* with helpers/pdf_annotation.py).                                        *)
(*                                                                         *)
(* The specifications share the variables:                                 *)
(*   Spec        the chunk store with concurrent callers                   *)
(*   SpecSingle  the chunk store with one caller (spec.md section 5)       *)
(*   SpecQuery   process_variables                                         *)
(*   SpecPipe    PDFProcessor.process_pdfs / process_single_pdf            *)
(*   SpecUpload  upload_file, which calls process_single_pdf,              *)
(*               insert_chunks and process_variables                       *)
(*   SpecEnrich  enrich_json_with_summaries                                *)
(*   SpecTag     enrich_title                                              *)
(*   SpecOracle  the loops that call an oracle, one component a behaviour  *)
(* Each leaves the variables of the other components unchanged.            *)
(***************************************************************************)
EXTENDS Integers, Sequences, FiniteSets, TLC

VARIABLES
    documents,   \* the documents table: set of [document_id, filename]
    nextDocId,   \* the serial the database gives the next document row
    chunks,      \* the chunks table: sequence of rows, row id = index
    pc,          \* per caller: where it stands in insert_chunks / process_embeddings
    loc,         \* per caller: the locals of the running call
    last,        \* what the call that completed last did (history)
    returned,    \* what insert_chunks returned: set of [path, document_id] (history)
    overlapped,  \* filenames whose lookup-or-create calls overlapped (history)
    calls,       \* number of calls started so far
    qpc,         \* process_variables: "idle", "loop" or "done"
    qVars,       \* process_variables: the catalogue it was given
    qDoc,        \* process_variables: the document_id it was given
    qIdx,        \* process_variables: the variable the loop stands at
    results,     \* process_variables: the results mapping, name -> answer
    qLog,        \* per variable attempted: what its steps did (history)
    inputDir,       \* the PDFs of the input directory
    partitionedDir, \* 01_partitioned: the PDFs f with a file f.json
    chunkedDir,     \* 02_chunked: files [name, n], name followed by n ".json"
    annotatedDir,   \* 03_annotated_pages: the <<PDF, page>> with an image
    ppc,         \* orchestrator: the stage the running call stands at
    run,         \* orchestrator: the locals of the running call
    ret,         \* orchestrator: what the last call returned
    stageLog,    \* the stages the running call executed (history)
    runs,        \* number of orchestrator calls started so far
    upc,         \* upload_file: where the request stands
    upFile,      \* upload_file: the name of the uploaded file
    response,    \* upload_file: the HTTP response (code 0: none yet)
    json_data,   \* enrich_json_with_summaries: the collection in memory
    json_file,   \* the stored element-collection file
    epc,         \* enrich_json_with_summaries: the loop it stands in
    ePos,        \* enrich_json_with_summaries: the position in that loop
    eLog,        \* the elements attempted so far, in order (history)
    title_text,     \* enrich_title: its argument, a tuple of characters
    enriched_text,  \* enrich_title: the text as tagged so far
    tagPass         \* enrich_title: the pattern that is applied next

storeVars ==
    <<documents, nextDocId, chunks, pc, loc, last, returned, overlapped, calls>>

queryVars == <<qpc, qVars, qDoc, qIdx, results, qLog>>

fsVars == <<inputDir, partitionedDir, chunkedDir, annotatedDir>>

pipeVars == <<fsVars, ppc, run, ret, stageLog, runs>>

uploadVars == <<upc, upFile, response>>

enrichVars == <<json_data, json_file, epc, ePos, eLog>>

tagVars == <<title_text, enriched_text, tagPass>>

vars == <<storeVars, queryVars, pipeVars, uploadVars, enrichVars, tagVars>>

(***************************************************************************)
(* Bounds                                                                  *)
(***************************************************************************)
MaxItems == 2      \* items in one chunk file
MaxCalls == 3      \* calls started in one behaviour of the single caller
MaxRaceCalls == 2  \* calls started in one behaviour of concurrent callers
MaxRows == 3       \* rows of the chunks table
MaxVariables == 3  \* variables in a catalogue
MaxRuns == 2       \* orchestrator calls started in one behaviour
MaxPages == 2      \* pages of the longest PDF
MaxElements == 3   \* elements of a partition file
MaxTitleWords == 2 \* words of a title

(***************************************************************************)
(* Values                                                                  *)
(***************************************************************************)
NULL == <<>>                      \* Python None / SQL NULL: no vector
Writers == {"w1", "w2"}
SingleWriter == {"w1"}

\* Chunk files: a directory and the basename cut into tokens.
ChunkPaths ==
    { [dir |-> "02_chunked", base |-> <<"a", ".pdf", ".json">>],
      [dir |-> "backup",     base |-> <<"a", ".json", ".pdf", ".json">>],
      [dir |-> "02_chunked", base |-> <<"b", ".pdf", ".json">>] }

\* What open()/json.load() give for a path: an exception (readable = FALSE),
\* or a list of 0..MaxItems items.
FileContents == [readable : BOOLEAN, n : 0..MaxItems]

(***************************************************************************)
(* Helpers                                                                 *)
(***************************************************************************)
RECURSIVE RemoveAll(_, _)
\* str.replace(tok, ''): every occurrence of the token is dropped.
RemoveAll(s, tok) ==
    IF s = <<>> THEN <<>>
    ELSE IF Head(s) = tok THEN RemoveAll(Tail(s), tok)
         ELSE <<Head(s)>> \o RemoveAll(Tail(s), tok)

Min(S) == CHOOSE x \in S : \A y \in S : x <= y

RECURSIVE SortedSeq(_)
\* The elements of a finite set of integers in increasing order.
SortedSeq(S) ==
    IF S = {} THEN <<>>
    ELSE <<Min(S)>> \o SortedSeq(S \ {Min(S)})

Range(s) == { s[k] : k \in 1..Len(s) }

Basename(path) == path.base

\* filename = os.path.basename(file_path).replace('.json', '')
FilenameOf(path) == RemoveAll(Basename(path), ".json")

Filenames == { FilenameOf(p) : p \in ChunkPaths }

\* The text of item number i of the chunk file of a document.
ItemText(filename, i) == <<filename[1], i>>

(***************************************************************************)
(* The storage backend and the embedding oracle                            *)
(***************************************************************************)
\* A lookup that never finds the row.
SelectDocumentsMiss(filename) == {}

\* documents.select("document_id").eq("filename", filename)
SelectDocuments(filename) == { d \in documents : d.filename = filename }

\* The fetch without the filter on the embedding column.
FetchChunksOfDocument(document_id) ==
    { i \in 1..Len(chunks) : chunks[i].document_id = document_id }

\* chunks.select("*").eq("document_id", id).is_("embedding", None)
FetchChunksWithoutEmbeddings(document_id) ==
    { i \in 1..Len(chunks) :
        /\ chunks[i].document_id = document_id
        /\ chunks[i].embedding = NULL }

\* The vector the embedding model gives a text.
Vec(text) == <<"vec", text>>

\* encode_text_to_vector: the vector of the text, or None when the call
\* fails or the response carries no embedding.
EncodeTextToVector(text) == {Vec(text), NULL}

\* The row insert_chunks builds for item number i of the file.
ChunkData(i, document_id, filename, embedding) ==
    [ element_id  |-> i,
      text        |-> ItemText(filename, i),
      document_id |-> document_id,
      source_file |-> filename,
      embedding   |-> embedding ]

RECURSIVE SumN(_, _)
SumN(f, S) ==
    IF S = {} THEN 0
    ELSE LET x == CHOOSE x \in S : TRUE IN f[x].n + SumN(f, S \ {x})

\* Rows the table holds or the running calls may still add.
RowsClaimed == Len(chunks) + SumN(loc, Writers)

NoLoc == [path |-> <<>>, filename |-> <<>>, n |-> 0, document_id |-> 0, todo |-> <<>>,
          existed |-> FALSE, created |-> FALSE]

(***************************************************************************)
(* insert_chunks                                                           *)
(***************************************************************************)
\* The call of caller w ends with an exception (line 260-262, or an
\* uncaught one of process_embeddings).
Raise(w, op) ==
    /\ pc' = [pc EXCEPT ![w] = "idle"]
    /\ loc' = [loc EXCEPT ![w] = NoLoc]
    /\ last' = [op |-> op, result |-> "raised"]

\* Lines 209-218 for a given file: open and load it; an empty list
\* returns None.
InsertChunks(w, path, maxCalls) ==
    /\ pc[w] = "idle"
    /\ calls < maxCalls
    /\ calls' = calls + 1
    /\ \E content \in FileContents :
         /\ RowsClaimed + content.n <= MaxRows
         /\ IF ~content.readable
            THEN Raise(w, "insert")
            ELSE IF content.n = 0
            THEN /\ pc' = pc
                 /\ loc' = [loc EXCEPT ![w] = NoLoc]
                 /\ last' = [op |-> "insert", result |-> "empty",
                             filename |-> FilenameOf(path)]
            ELSE /\ pc' = [pc EXCEPT ![w] = "select"]
                 /\ loc' = [loc EXCEPT ![w] =
                               [NoLoc EXCEPT
                                  !.path = Basename(path),
                                  !.filename = FilenameOf(path),
                                  !.n = content.n,
                                  !.existed =
                                     SelectDocuments(FilenameOf(path)) # {}]]
                 /\ last' = last
    /\ UNCHANGED <<documents, nextDocId, chunks, returned, overlapped>>

\* insert_chunks called on any of the chunk files.
InsertChunksStart(w, maxCalls) ==
    \E path \in ChunkPaths : InsertChunks(w, path, maxCalls)

\* get_or_create_document_id, lines 127-129: the select.
SelectDocument(w) ==
    /\ pc[w] = "select"
    /\ \/ Raise(w, "insert") /\ UNCHANGED overlapped
       \/ /\ overlapped' =
                IF \E v \in Writers \ {w} :
                      pc[v] = "insert_doc" /\ loc[v].filename = loc[w].filename
                THEN overlapped \cup {loc[w].filename}
                ELSE overlapped
          /\ IF SelectDocuments(loc[w].filename) # {}
             THEN \E d \in SelectDocuments(loc[w].filename) :
                    /\ pc' = [pc EXCEPT ![w] = "loop"]
                    /\ loc' = [loc EXCEPT ![w].document_id = d.document_id]
             ELSE /\ pc' = [pc EXCEPT ![w] = "insert_doc"]
                  /\ loc' = loc
          /\ last' = last
    /\ UNCHANGED <<documents, nextDocId, chunks, returned, calls>>

\* get_or_create_document_id, lines 131-132: the insert.
InsertDocument(w) ==
    /\ pc[w] = "insert_doc"
    /\ \/ Raise(w, "insert") /\ UNCHANGED <<documents, nextDocId>>
       \/ /\ documents' = documents \cup
                {[document_id |-> nextDocId, filename |-> loc[w].filename]}
          /\ nextDocId' = nextDocId + 1
          /\ pc' = [pc EXCEPT ![w] = "loop"]
          /\ loc' = [loc EXCEPT ![w].document_id = nextDocId,
                                ![w].created = TRUE]
          /\ last' = last
    /\ UNCHANGED <<chunks, returned, overlapped, calls>>

\* What one iteration of the item loop can do: whether encode_text_to_vector
\* returned a vector, and whether the row insert succeeded (an exception or
\* an empty response leaves no row).
ItemOutcomes == [embedded : BOOLEAN, inserted : BOOLEAN]

\* An iteration that stores a placeholder when it has no vector.
ItemEmbeddingOrPlaceholder(filename, i, out) ==
    IF out.embedded THEN Vec(ItemText(filename, i)) ELSE <<"vec">>

\* Line 229: embedding = encode_text_to_vector(item["text"])
ItemEmbedding(filename, i, out) ==
    IF out.embedded THEN Vec(ItemText(filename, i)) ELSE NULL

\* An iteration that gives up the row when it has no vector.
ItemInsertedIfEmbedded(out) == out.inserted /\ out.embedded

\* Lines 231-245: whether the iteration inserts its row; a missing vector
\* does not stop it.
ItemInserted(out) == out.inserted

RECURSIVE InsertRowsNotStored(_, _, _, _, _, _)
\* A loop that leaves out the items the document already has a row of.
InsertRowsNotStored(table, i, n, outs, document_id, filename) ==
    IF i > n THEN table
    ELSE InsertRowsNotStored(
           IF /\ outs[i].inserted
              /\ ~\E k \in 1..Len(table) :
                    /\ table[k].document_id = document_id
                    /\ table[k].element_id = i
           THEN Append(table,
                       ChunkData(i, document_id, filename,
                                 ItemEmbedding(filename, i, outs[i])))
           ELSE table,
           i + 1, n, outs, document_id, filename)

RECURSIVE InsertRowsUntilFailure(_, _, _, _, _, _)
InsertRowsUntilFailure(table, i, n, outs, document_id, filename) ==
    IF i > n \/ ~outs[i].inserted THEN table
    ELSE InsertRowsUntilFailure(
           Append(table,
                  ChunkData(i, document_id, filename,
                            ItemEmbedding(filename, i, outs[i]))),
           i + 1, n, outs, document_id, filename)

RECURSIVE InsertRows(_, _, _, _, _, _)
\* The chunks table after the iterations i..n of the loop of lines 226-255.
InsertRows(table, i, n, outs, document_id, filename) ==
    IF i > n THEN table
    ELSE InsertRows(
           IF ItemInserted(outs[i])
           THEN Append(table,
                       ChunkData(i, document_id, filename,
                                 ItemEmbedding(filename, i, outs[i])))
           ELSE table,
           i + 1, n, outs, document_id, filename)

RECURSIVE RowIds(_, _, _, _)
\* The row id each item got (0: no row), for the history.
RowIds(len, i, n, outs) ==
    IF i > n THEN <<>>
    ELSE IF ItemInserted(outs[i])
         THEN <<len + 1>> \o RowIds(len + 1, i + 1, n, outs)
         ELSE <<0>> \o RowIds(len, i + 1, n, outs)

LoopResultRaisesOnFailure(outs) ==
    IF \E i \in DOMAIN outs : ~outs[i].inserted THEN "raised"
    ELSE "returned"

\* Lines 252-258: the exception of an item is caught inside the loop,
\* so the call returns whatever the items did.
LoopResult(outs) == "returned"

\* Lines 225-258: the item loop, then return document_id.
ChunkLoop(w) ==
    /\ pc[w] = "loop"
    /\ \E outs \in [1..loc[w].n -> ItemOutcomes] :
         /\ chunks' = InsertRows(chunks, 1, loc[w].n, outs,
                                 loc[w].document_id, loc[w].filename)
         /\ last' = [op |-> "insert", result |-> LoopResult(outs),
                     filename |-> loc[w].filename,
                     document_id |-> loc[w].document_id,
                     existed |-> loc[w].existed,
                     created |-> loc[w].created,
                     outs |-> outs,
                     rows |-> RowIds(Len(chunks), 1, loc[w].n, outs)]
    /\ returned' = returned \cup
                      {[path |-> loc[w].path,
                        document_id |-> loc[w].document_id]}
    /\ pc' = [pc EXCEPT ![w] = "idle"]
    /\ loc' = [loc EXCEPT ![w] = NoLoc]
    /\ UNCHANGED <<documents, nextDocId, overlapped, calls>>

(***************************************************************************)
(* process_embeddings                                                      *)
(***************************************************************************)
\* Lines 171-176: fetch the document's chunks without an embedding.
ProcessEmbeddingsStart(w, maxCalls) ==
    /\ pc[w] = "idle"
    /\ calls < maxCalls
    /\ calls' = calls + 1
    /\ \E document_id \in 1..(nextDocId - 1) :
         \/ Raise(w, "embed")
         \/ LET todo == SortedSeq(FetchChunksWithoutEmbeddings(document_id))
            IN IF todo = <<>>
               THEN /\ pc' = pc
                    /\ loc' = [loc EXCEPT ![w] = NoLoc]
                    /\ last' = [op |-> "embed", result |-> "returned",
                                document_id |-> document_id, todo |-> <<>>,
                                outs |-> <<>>]
               ELSE /\ pc' = [pc EXCEPT ![w] = "pe_loop"]
                    /\ loc' = [loc EXCEPT ![w] =
                                  [NoLoc EXCEPT !.document_id = document_id,
                                                !.todo = todo]]
                    /\ last' = last
    /\ UNCHANGED <<documents, nextDocId, chunks, returned, overlapped>>

\* What one iteration of the backfill loop can do: whether
\* encode_text_to_vector returned a vector, and whether
\* update_chunk_embedding's update went through (its exceptions are caught,
\* line 159).
EmbedOutcomes == [embedded : BOOLEAN, stored : BOOLEAN]

\* Lines 183-187: update_chunk_embedding is called only "if embedding".
Writes(out) == out.embedded /\ out.stored

\* Lines 178-198: the loop over the fetched chunks.
EmbedLoop(w) ==
    /\ pc[w] = "pe_loop"
    /\ \E outs \in [Range(loc[w].todo) -> EmbedOutcomes] :
         /\ chunks' = [i \in 1..Len(chunks) |->
                         IF i \in Range(loc[w].todo) /\ Writes(outs[i])
                         THEN [chunks[i] EXCEPT !.embedding = Vec(chunks[i].text)]
                         ELSE chunks[i]]
         /\ last' = [op |-> "embed", result |-> "returned",
                     document_id |-> loc[w].document_id,
                     todo |-> loc[w].todo, outs |-> outs]
    /\ pc' = [pc EXCEPT ![w] = "idle"]
    /\ loc' = [loc EXCEPT ![w] = NoLoc]
    /\ UNCHANGED <<documents, nextDocId, returned, overlapped, calls>>

(***************************************************************************)
(* Specifications of the chunk store                                       *)
(***************************************************************************)
InitStore ==
    /\ documents = {}
    /\ nextDocId = 1
    /\ chunks = <<>>
    /\ pc = [w \in Writers |-> "idle"]
    /\ loc = [w \in Writers |-> NoLoc]
    /\ last = [op |-> "none"]
    /\ returned = {}
    /\ overlapped = {}
    /\ calls = 0

\* No process_variables call has been made.
IdleQuery ==
    /\ qpc = "idle"
    /\ qVars = <<>>
    /\ qDoc = 0
    /\ qIdx = 0
    /\ results = <<>>
    /\ qLog = <<>>

\* The locals of no orchestrator call.
NoRun == [entry |-> "none", pdf_files |-> <<>>, status |-> TRUE, idx |-> 0,
          processed |-> FALSE]

\* No orchestrator call has been made; the output directories are empty
\* (PDFProcessor.__init__ creates them, pdf_ingest.py lines 88-89).
IdlePipe ==
    /\ partitionedDir = {}
    /\ chunkedDir = {}
    /\ annotatedDir = {}
    /\ ppc = "Idle"
    /\ run = NoRun
    /\ ret = <<>>
    /\ stageLog = <<>>
    /\ runs = 0

\* An HTTP response of upload_file.
Response(code, status, detail, document_id, res) ==
    [code |-> code, status |-> status, detail |-> detail,
     document_id |-> document_id, processing_results |-> res]

NoResponse == Response(0, "", <<>>, 0, <<>>)

\* No request has been received.
IdleUpload ==
    /\ upc = "idle"
    /\ upFile = ""
    /\ response = NoResponse

\* enrich_json_with_summaries has not been called.
IdleEnrich ==
    /\ json_data = <<>>
    /\ epc = "idle"
    /\ ePos = 0
    /\ eLog = <<>>

IdleTagger ==
    /\ title_text = <<>>
    /\ enriched_text = <<>>
    /\ tagPass = 0

Init ==
    /\ InitStore
    /\ IdleQuery
    /\ inputDir = {}
    /\ IdlePipe
    /\ IdleUpload
    /\ json_file = <<>>
    /\ IdleEnrich
    /\ IdleTagger

StoreStep(w, maxCalls) ==
    \/ InsertChunksStart(w, maxCalls)
    \/ SelectDocument(w)
    \/ InsertDocument(w)
    \/ ChunkLoop(w)
    \/ ProcessEmbeddingsStart(w, maxCalls)
    \/ EmbedLoop(w)

Next ==
    /\ \E w \in Writers : StoreStep(w, MaxRaceCalls)
    /\ UNCHANGED <<queryVars, pipeVars, uploadVars, enrichVars, tagVars>>

Spec == Init /\ [][Next]_vars

NextSingle ==
    /\ \E w \in SingleWriter : StoreStep(w, MaxCalls)
    /\ UNCHANGED <<queryVars, pipeVars, uploadVars, enrichVars, tagVars>>

SpecSingle == Init /\ [][NextSingle]_vars

(***************************************************************************)
(* process_variables (rag_functions.py)                                    *)
(***************************************************************************)
MatchThreshold == -2     \* match_threshold -0.2, in tenths
MatchCount == 5          \* match_count

\* Similarity scores in tenths; none sits on the threshold.
SimValues == {-5, 1, 7}

\* Names of the catalogue of upload_file.
VariableNames == {"deal_name", "license_fee", "contract_currency"}

\* The extraction variable of a name.
Variable(name) ==
    [name |-> name,
     retrieve_question |-> <<"retrieve", name>>,
     generate_question |-> <<"generate", name>>]

RECURSIVE SeqsOver(_, _)
\* The sequences of at most n distinct elements of S.
SeqsOver(S, n) ==
    IF n = 0 \/ S = {} THEN {<<>>}
    ELSE {<<>>} \cup
         UNION { { <<x>> \o t : t \in SeqsOver(S \ {x}, n - 1) } : x \in S }

\* The catalogues: lists of variables with distinct names.
Catalogues ==
    { [i \in 1..Len(ns) |-> Variable(ns[i])] :
        ns \in SeqsOver(VariableNames, MaxVariables) }

\* The completions the generation oracle may return, as token lists.
RawAnswers == { <<"License Agreement">>, <<" ", "EUR", "\n">>, <<"Not found">> }

Whitespace == {" ", "\n"}

RECURSIVE LStrip(_)
LStrip(t) ==
    IF t # <<>> /\ Head(t) \in Whitespace THEN LStrip(Tail(t)) ELSE t

RECURSIVE RStrip(_)
RStrip(t) ==
    IF t # <<>> /\ t[Len(t)] \in Whitespace
    THEN RStrip(SubSeq(t, 1, Len(t) - 1)) ELSE t

\* str.strip()
Strip(t) == RStrip(LStrip(t))

\* The rows the similarity function may rank: those of the document that
\* have an embedding and score above the threshold.
Matching(sims, threshold, document_id) ==
    { i \in 1..Len(chunks) :
        /\ chunks[i].document_id = document_id
        /\ chunks[i].embedding # NULL
        /\ sims[i] > threshold }

RECURSIVE Ranked(_, _)
\* The rows of S by falling similarity (equal scores by row id).
Ranked(S, sims) ==
    IF S = {} THEN <<>>
    ELSE LET best == CHOOSE i \in S :
                       \A j \in S : \/ sims[i] > sims[j]
                                    \/ sims[i] = sims[j] /\ i <= j
         IN <<best>> \o Ranked(S \ {best}, sims)

FirstN(s, n) == SubSeq(s, 1, IF Len(s) < n THEN Len(s) ELSE n)

\* The rpc match_documents2 with the parameters of lines 78-83.
MatchDocuments(sims, threshold, count, document_id) ==
    FirstN(Ranked(Matching(sims, threshold, document_id), sims), count)

\* A search that leaves out the document filter of line 82.
QuerySimilarChunksOfAnyDocument(sims, document_id) ==
    FirstN(Ranked({ i \in 1..Len(chunks) :
                      chunks[i].embedding # NULL /\ sims[i] > MatchThreshold },
                  sims), MatchCount)

\* query_similar_chunks when the rpc answers: the ranked rows (lines 85-105).
QuerySimilarChunks(sims, document_id) ==
    MatchDocuments(sims, MatchThreshold, MatchCount, document_id)

\* query_similar_chunks when the rpc raises (lines 107-109).
QueryFailed == <<>>

\* Line 152: the texts of the chunks, in the order returned.
Context(found) == [k \in 1..Len(found) |-> chunks[found[k]].text]

\* A loop that ends at the first variable that fails.
BreakLoop(i, n) == n + 1

\* Lines 143, 149, 187: continue with the next variable.
ContinueWithNext(i, n) == i + 1

\* A check that lets an empty result through to the generation step.
NoChunksNever(found) == FALSE

\* Line 147: if not chunks
NoChunks(found) == found = <<>>

\* results[var['name']] = answer
Store(res, name, answer) ==
    [k \in DOMAIN res \cup {name} |-> IF k = name THEN answer ELSE res[k]]

\* The loop has handled variable qIdx and stands at variable `next`.
Advance(next, res, entry) ==
    /\ qIdx' = next
    /\ qpc' = IF next > Len(qVars) THEN "done" ELSE "loop"
    /\ results' = res
    /\ qLog' = Append(qLog, entry)
    /\ UNCHANGED <<qVars, qDoc>>

NoEntry == [embedded |-> FALSE, found |-> <<>>, generated |-> FALSE,
            context |-> <<>>, answered |-> FALSE, raw |-> <<>>]

\* Lines 134-136: the call, with an empty results mapping.
ProcessVariables(variables, document_id) ==
    /\ qpc = "idle"
    /\ qVars' = variables
    /\ qDoc' = document_id
    /\ qpc' = IF variables = <<>> THEN "done" ELSE "loop"
    /\ qIdx' = 1
    /\ results' = <<>>
    /\ qLog' = <<>>
    /\ UNCHANGED storeVars

\* process_variables called on any catalogue and stored document.
ProcessVariablesStart ==
    \E variables \in Catalogues, document_id \in 1..(nextDocId - 1) :
        ProcessVariables(variables, document_id)

\* Lines 136-187: one iteration of the loop; after the last one the
\* mapping is returned (line 189).
ProcessVariable ==
    /\ qpc = "loop"
    /\ LET name == qVars[qIdx].name
           n == Len(qVars)
       IN \/ \* get_openai_embedding returned None
             Advance(ContinueWithNext(qIdx, n), results, NoEntry)
          \/ \E found \in {QueryFailed} \cup
                          { QuerySimilarChunks(sims, qDoc) :
                              sims \in [1..Len(chunks) -> SimValues] } :
               LET searched == [NoEntry EXCEPT !.embedded = TRUE,
                                               !.found = found]
               IN IF NoChunks(found)
                  THEN Advance(ContinueWithNext(qIdx, n), results, searched)
                  ELSE LET called == [searched EXCEPT
                                        !.generated = TRUE,
                                        !.context = Context(found)]
                       IN \/ \* the completion call raised
                             Advance(ContinueWithNext(qIdx, n), results,
                                     called)
                          \/ \E raw \in RawAnswers :
                               Advance(qIdx + 1,
                                       Store(results, name, Strip(raw)),
                                       [called EXCEPT !.answered = TRUE,
                                                       !.raw = raw])
    /\ UNCHANGED storeVars

\* A chunks table insert_chunks and process_embeddings can leave: three
\* chunks of document 1 (one without embedding) and one of document 2.
QueryFilenames == <<"a", "a", "b", "a">>
QueryElements == <<1, 2, 1, 3>>
QueryDocuments == <<1, 1, 2, 1>>
QueryEmbedded == <<TRUE, TRUE, TRUE, FALSE>>

QueryChunks ==
    [i \in 1..Len(QueryDocuments) |->
        ChunkData(QueryElements[i], QueryDocuments[i],
                  <<QueryFilenames[i], ".pdf">>,
                  IF QueryEmbedded[i]
                  THEN Vec(ItemText(<<QueryFilenames[i], ".pdf">>,
                                    QueryElements[i]))
                  ELSE NULL)]

InitQuery ==
    /\ documents = { [document_id |-> 1, filename |-> <<"a", ".pdf">>],
                     [document_id |-> 2, filename |-> <<"b", ".pdf">>] }
    /\ nextDocId = 3
    /\ chunks = QueryChunks
    /\ pc = [w \in Writers |-> "idle"]
    /\ loc = [w \in Writers |-> NoLoc]
    /\ last = [op |-> "none"]
    /\ returned = {}
    /\ overlapped = {}
    /\ calls = 0
    /\ IdleQuery
    /\ inputDir = {}
    /\ IdlePipe
    /\ IdleUpload
    /\ json_file = <<>>
    /\ IdleEnrich
    /\ IdleTagger

NextQuery ==
    /\ ProcessVariablesStart \/ ProcessVariable
    /\ UNCHANGED <<pipeVars, uploadVars, enrichVars, tagVars>>

SpecQuery == InitQuery /\ [][NextQuery]_vars

(***************************************************************************)
(* The pipeline orchestrator (helpers/pdf_ingest.py)                       *)
(*                                                                         *)
(* PipelineConfigs declares no fields (lines 48-60), so as given the       *)
(* constructor call of line 134 raises; with the attributes its docstring  *)
(* lists it returns.  The first call of create_pipeline_configs in a run   *)
(* takes either outcome, and the later call of the same run returns.       *)
(* cleanup_file_extensions lists and renames in a directory the            *)
(* constructor created: it does not raise.                                 *)
(***************************************************************************)
PdfNames == {"a.pdf", "b.pdf"}

\* get_pdf_page_count of the PDFs above.
PageCount(f) == IF f = "a.pdf" THEN MaxPages ELSE 1

\* The lists of PDF names a caller may hand over.
PdfLists == SeqsOver(PdfNames, Cardinality(PdfNames))

\* Where no call is running.
Finished == {"Idle", "Done", "Failed", "Raised"}

\* Whole files as units of work (annotation works on pages 1, 2, ...).
Whole(S) == { <<f, 0>> : f \in S }

\* One executed stage: whether it succeeded, the PDF it was about (the
\* per-file annotation), the units it worked on and the files on which
\* it failed without failing itself.
Entry(stage, ok, file, work, failed) ==
    [stage |-> stage, ok |-> ok, file |-> file, work |-> work,
     failed |-> failed]

\* All outputs of the pipeline exist for every PDF of the list.
Processed(pdf_files) ==
    /\ pdf_files # <<>>
    /\ \A i \in 1..Len(pdf_files) :
         /\ pdf_files[i] \in partitionedDir
         /\ [name |-> pdf_files[i], n |-> 1] \in chunkedDir
         /\ \A p \in 1..PageCount(pdf_files[i]) :
              <<pdf_files[i], p>> \in annotatedDir

\* A pass that renames nothing.
CleanupNothing(dir) == dir

\* cleanup_file_extensions: every file ending in ".json.json" is renamed
\* by str.replace('.json.json', '.json'), which rewrites the pairs of
\* the run of suffixes from the left (no PDF name holds ".json").
CleanupFileExtensions(dir) ==
    { IF file.n >= 2
      THEN [name |-> file.name, n |-> (file.n + 1) \div 2]
      ELSE file : file \in dir }

\* The files cleanup_file_extensions renames.
Renamed(dir) == { file.name : file \in { g \in dir : g.n >= 2 } }

\* The chunking pipeline writes <input name>.json for every file of
\* 01_partitioned, itself named <PDF>.json.
ChunkedOutputs(partitioned) == { [name |-> f, n |-> 2] : f \in partitioned }

AllPages(f, annotated) == 1..PageCount(f)

\* draw_bounding_boxes: a page whose annotated image exists is skipped.
PagesToDraw(f, annotated) ==
    { p \in 1..PageCount(f) : <<f, p>> \notin annotated }

\* annotate_pdf_pages after get_pdf_page_count: the PDF and its
\* partition JSON are opened, then the pages are drawn in order until
\* one raises.
AnnotateOutcomes(f) ==
    IF f \notin inputDir \/ f \notin partitionedDir
    THEN { [ok |-> FALSE, drawn |-> {}] }
    ELSE LET todo == PagesToDraw(f, annotatedDir)
         IN { [ok |-> TRUE, drawn |-> todo], [ok |-> FALSE, drawn |-> {}] }
            \cup { [ok |-> FALSE, drawn |-> { p \in todo : p < q }] :
                     q \in todo }

Drawn(f, pages) == { <<f, p>> : p \in pages }

PdfsAfterHalting(stage, status) ==
    IF ~status THEN "Returning"
    ELSE CASE stage = "Partitioning" -> "Enriching"
           [] stage = "Enriching" -> "Chunking"
           [] stage = "Chunking" -> "Cleanup"

\* process_pdfs: where the run goes after a stage, by the status flag
\* (the `if status:` of lines 205 and 214; line 238 is unconditional).
PdfsAfter(stage, status) ==
    CASE stage = "Partitioning" -> IF status THEN "Enriching" ELSE "Cleanup"
      [] stage = "Enriching" -> IF status THEN "Chunking" ELSE "Cleanup"
      [] stage = "Chunking" -> "Cleanup"

\* Lines 179-197: the call, up to the partitioning configuration.
ProcessPdfs(pdf_files) ==
    /\ ppc \in Finished
    /\ runs < MaxRuns
    /\ runs' = runs + 1
    /\ run' = [entry |-> "process_pdfs", pdf_files |-> pdf_files,
               status |-> TRUE, idx |-> 1,
               processed |-> Processed(pdf_files)]
    /\ stageLog' = <<>>
    /\ ret' = <<>>
    /\ \E made \in BOOLEAN : ppc' = IF made THEN "Partitioning" ELSE "Raised"
    /\ UNCHANGED fsVars

\* Lines 198-202: the partitioning pipeline over the input directory.
PdfsPartition ==
    /\ ppc = "Partitioning"
    /\ run.entry = "process_pdfs"
    /\ \E ok \in BOOLEAN, produced \in SUBSET inputDir :
         /\ partitionedDir' = partitionedDir \cup produced
         /\ run' = [run EXCEPT !.status = ok]
         /\ stageLog' = Append(stageLog,
                Entry("Partitioning", ok, "", Whole(inputDir), {}))
         /\ ppc' = PdfsAfter("Partitioning", ok)
    /\ UNCHANGED <<inputDir, chunkedDir, annotatedDir, ret, runs>>

\* Lines 205-211 with enrich_partitions (265-277): the listing may raise;
\* a file whose enrichment raises is logged and passed over.
PdfsEnrich ==
    /\ ppc = "Enriching"
    /\ run.entry = "process_pdfs"
    /\ \E listed \in BOOLEAN, failed \in SUBSET partitionedDir :
         /\ ~listed => failed = {}
         /\ run' = [run EXCEPT !.status = listed]
         /\ stageLog' = Append(stageLog,
                Entry("Enriching", listed, "",
                      IF listed THEN Whole(partitionedDir) ELSE {}, failed))
         /\ ppc' = PdfsAfter("Enriching", listed)
    /\ UNCHANGED <<fsVars, ret, runs>>

\* Lines 214-236: the chunking pipeline over 01_partitioned.
PdfsChunk ==
    /\ ppc = "Chunking"
    /\ run.entry = "process_pdfs"
    /\ \E ok \in BOOLEAN :
         /\ chunkedDir' = IF ok
                          THEN chunkedDir \cup ChunkedOutputs(partitionedDir)
                          ELSE chunkedDir
         /\ run' = [run EXCEPT !.status = ok]
         /\ stageLog' = Append(stageLog,
                Entry("Chunking", ok, "", Whole(partitionedDir), {}))
         /\ ppc' = PdfsAfter("Chunking", ok)
    /\ UNCHANGED <<inputDir, partitionedDir, annotatedDir, ret, runs>>

\* Line 238.
PdfsCleanup ==
    /\ ppc = "Cleanup"
    /\ run.entry = "process_pdfs"
    /\ chunkedDir' = CleanupFileExtensions(chunkedDir)
    /\ stageLog' = Append(stageLog,
           Entry("Cleanup", TRUE, "", Whole(Renamed(chunkedDir)), {}))
    /\ ppc' = IF run.pdf_files = <<>> THEN "Returning" ELSE "Annotating"
    /\ UNCHANGED <<inputDir, partitionedDir, annotatedDir, run, ret, runs>>

\* Lines 248-261: one turn of the annotation loop.
PdfsAnnotate ==
    /\ ppc = "Annotating"
    /\ run.entry = "process_pdfs"
    /\ LET f == run.pdf_files[run.idx]
       IN \E out \in AnnotateOutcomes(f) :
            /\ annotatedDir' = annotatedDir \cup Drawn(f, out.drawn)
            /\ run' = [run EXCEPT !.status = run.status /\ out.ok,
                                  !.idx = run.idx + 1]
            /\ stageLog' = Append(stageLog,
                   Entry("Annotating", out.ok, f, Drawn(f, out.drawn), {}))
    /\ ppc' = IF run.idx = Len(run.pdf_files) THEN "Returning"
              ELSE "Annotating"
    /\ UNCHANGED <<inputDir, partitionedDir, chunkedDir, ret, runs>>

\* Line 263.
PdfsReturn ==
    /\ ppc = "Returning"
    /\ ret' = <<run.status>>
    /\ ppc' = "Done"
    /\ UNCHANGED <<fsVars, run, stageLog, runs>>

SingleAfterContinues(stage, ok) ==
    CASE stage = "Partitioning" -> "Enriching"
      [] stage = "Enriching" -> "Chunking"
      [] stage = "Chunking" -> "Cleanup"
      [] stage = "Annotating" -> "Done"

\* process_single_pdf: a failed stage returns at once (lines 337, 343,
\* 348, 360, 369-371), a successful one falls through to the next.
SingleAfter(stage, ok) ==
    IF ~ok THEN "Failed"
    ELSE CASE stage = "Partitioning" -> "Enriching"
           [] stage = "Enriching" -> "Chunking"
           [] stage = "Chunking" -> "Cleanup"
           [] stage = "Annotating" -> "Done"

\* Lines 327-333: the call, up to the partitioning configuration; a
\* raise of line 333 is caught at line 376.
ProcessSinglePdf(pdf_path) ==
    /\ ppc \in Finished
    /\ runs < MaxRuns
    /\ runs' = runs + 1
    /\ run' = [entry |-> "process_single_pdf", pdf_files |-> <<pdf_path>>,
               status |-> TRUE, idx |-> 1,
               processed |-> Processed(<<pdf_path>>)]
    /\ stageLog' = <<>>
    /\ \E made \in BOOLEAN :
         /\ ppc' = IF made THEN "Partitioning" ELSE "Failed"
         /\ ret' = IF made THEN <<>> ELSE <<0, "Unexpected error">>
    /\ UNCHANGED fsVars

\* Lines 334-337.
SinglePartition ==
    /\ ppc = "Partitioning"
    /\ run.entry = "process_single_pdf"
    /\ \E ok \in BOOLEAN, produced \in SUBSET inputDir :
         /\ partitionedDir' = partitionedDir \cup produced
         /\ stageLog' = Append(stageLog,
                Entry("Partitioning", ok, "", Whole(inputDir), {}))
         /\ ppc' = SingleAfter("Partitioning", ok)
         /\ ret' = IF ok THEN ret ELSE <<0, "Ingest failed">>
    /\ UNCHANGED <<inputDir, chunkedDir, annotatedDir, run, runs>>

\* Lines 340-348: the partition JSON of the PDF must exist, then it is
\* enriched.
SingleEnrich ==
    /\ ppc = "Enriching"
    /\ run.entry = "process_single_pdf"
    /\ LET f == run.pdf_files[1]
       IN IF f \notin partitionedDir
          THEN /\ stageLog' = Append(stageLog,
                      Entry("Enriching", FALSE, "", {}, {}))
               /\ ppc' = SingleAfter("Enriching", FALSE)
               /\ ret' = <<0, "Partition JSON not found">>
          ELSE \E ok \in BOOLEAN :
               /\ stageLog' = Append(stageLog,
                      Entry("Enriching", ok, "", Whole({f}),
                            IF ok THEN {} ELSE {f}))
               /\ ppc' = SingleAfter("Enriching", ok)
               /\ ret' = IF ok THEN ret ELSE <<0, "Enrichment failed">>
    /\ UNCHANGED <<fsVars, run, runs>>

\* Lines 351-360.
SingleChunk ==
    /\ ppc = "Chunking"
    /\ run.entry = "process_single_pdf"
    /\ \E ok \in BOOLEAN :
         /\ chunkedDir' = IF ok
                          THEN chunkedDir \cup ChunkedOutputs(partitionedDir)
                          ELSE chunkedDir
         /\ stageLog' = Append(stageLog,
                Entry("Chunking", ok, "", Whole(partitionedDir), {}))
         /\ ppc' = SingleAfter("Chunking", ok)
         /\ ret' = IF ok THEN ret ELSE <<0, "Chunking failed">>
    /\ UNCHANGED <<inputDir, partitionedDir, annotatedDir, run, runs>>

\* Line 362.
SingleCleanup ==
    /\ ppc = "Cleanup"
    /\ run.entry = "process_single_pdf"
    /\ chunkedDir' = CleanupFileExtensions(chunkedDir)
    /\ stageLog' = Append(stageLog,
           Entry("Cleanup", TRUE, "", Whole(Renamed(chunkedDir)), {}))
    /\ ppc' = "Annotating"
    /\ UNCHANGED <<inputDir, partitionedDir, annotatedDir, run, ret, runs>>

\* Lines 365-374.
SingleAnnotate ==
    /\ ppc = "Annotating"
    /\ run.entry = "process_single_pdf"
    /\ LET f == run.pdf_files[1]
       IN \E out \in AnnotateOutcomes(f) :
            /\ annotatedDir' = annotatedDir \cup Drawn(f, out.drawn)
            /\ stageLog' = Append(stageLog,
                   Entry("Annotating", out.ok, f, Drawn(f, out.drawn), {}))
            /\ ppc' = SingleAfter("Annotating", out.ok)
            /\ ret' = IF out.ok THEN <<1, "Success">>
                      ELSE <<0, "PDF annotation failed">>
    /\ UNCHANGED <<inputDir, partitionedDir, chunkedDir, run, runs>>

\* The input directory holds the PDFs; nothing has been processed.
InitPipe ==
    /\ InitStore
    /\ IdleQuery
    /\ inputDir \in {{"a.pdf"}, PdfNames}
    /\ IdlePipe
    /\ IdleUpload
    /\ json_file = <<>>
    /\ IdleEnrich
    /\ IdleTagger

NextPipe ==
    /\ \/ \E pdf_files \in PdfLists : ProcessPdfs(pdf_files)
       \/ PdfsPartition
       \/ PdfsEnrich
       \/ PdfsChunk
       \/ PdfsCleanup
       \/ PdfsAnnotate
       \/ PdfsReturn
       \/ \E pdf_path \in PdfNames : ProcessSinglePdf(pdf_path)
       \/ SinglePartition
       \/ SingleEnrich
       \/ SingleChunk
       \/ SingleCleanup
       \/ SingleAnnotate
    /\ UNCHANGED <<storeVars, queryVars, uploadVars, enrichVars, tagVars>>

SpecPipe == InitPipe /\ [][NextPipe]_vars

(***************************************************************************)
(* upload_file (rag_functions.py)                                          *)
(***************************************************************************)
UploadNames == PdfNames \cup {"notes.txt"}

\* Line 243: file.filename.lower().endswith('.pdf')
EndsWithPdf(name) == name \in PdfNames

\* Lines 262-264: the chunk file of the upload, <filename>.json in
\* 02_chunked.
ChunkFileOf(name) ==
    [dir |-> "02_chunked",
     base |-> IF name = "a.pdf" THEN <<"a", ".pdf", ".json">>
              ELSE <<"b", ".pdf", ".json">>]

\* Line 266: os.path.exists(json_file)
ChunkFileExists(name) == [name |-> name, n |-> 1] \in chunkedDir

\* The catalogue of lines 273-472, cut to its first and third variable.
UploadCatalogue == <<Variable("deal_name"), Variable("license_fee")>>

\* The caller of insert_chunks.
Uploader == "w1"

\* str(HTTPException(500, detail)): the status code, then the detail.
StrOfHTTPException(detail) == <<"500", detail>>

StatusAlwaysOk(result) == TRUE

\* Line 260: status == 1
StatusOk(result) == result[1] = 1

\* The response of lines 483-488 without the unlink of lines 486-487.
Respond500KeepingFile(detail) ==
    /\ inputDir' = inputDir
    /\ response' = Response(500, "error", detail, 0, <<>>)
    /\ upc' = "responded"

\* Lines 483-488: the response to an exception e, str(e) as detail; the
\* saved file is removed.
Respond500(detail) ==
    /\ inputDir' = inputDir \ {upFile}
    /\ response' = Response(500, "error", detail, 0, <<>>)
    /\ upc' = "responded"

\* Lines 241-253: the name is checked and the file is saved.
UploadFile(name) ==
    /\ upc = "idle"
    /\ upFile' = name
    /\ IF ~EndsWithPdf(name)
       THEN /\ response' =
                 Response(400, "error", <<"Only PDF files are allowed">>,
                          0, <<>>)
            /\ upc' = "responded"
            /\ inputDir' = inputDir
       ELSE \E saved \in BOOLEAN :
            IF saved
            THEN /\ inputDir' = inputDir \cup {name}
                 /\ upc' = "process"
                 /\ response' = response
            ELSE /\ inputDir' = inputDir \ {name}
                 /\ response' = Response(500, "error", <<"exception">>,
                                         0, <<>>)
                 /\ upc' = "responded"
    /\ UNCHANGED <<partitionedDir, chunkedDir, annotatedDir, ppc, run, ret,
                   stageLog, runs, storeVars, queryVars>>

\* Lines 256-258: the call of process_single_pdf.
UploadProcess ==
    /\ upc = "process"
    /\ ProcessSinglePdf(upFile)
    /\ upc' = "pipeline"
    /\ UNCHANGED <<upFile, response, storeVars, queryVars>>

\* Lines 258-269 and 481: the status of process_single_pdf decides
\* between insert_chunks on the chunk file and HTTP 500 with error_msg.
UploadStore ==
    /\ upc = "pipeline"
    /\ ppc \in {"Done", "Failed"}
    /\ IF StatusOk(ret) /\ ChunkFileExists(upFile)
       THEN /\ InsertChunks(Uploader, ChunkFileOf(upFile), MaxCalls)
            /\ upc' = "insert"
            /\ UNCHANGED <<response, pipeVars>>
       ELSE /\ Respond500(StrOfHTTPException(ret[2]))
            /\ UNCHANGED <<storeVars, partitionedDir, chunkedDir,
                           annotatedDir, ppc, run, ret, stageLog, runs>>
    /\ UNCHANGED <<upFile, queryVars>>

\* upload_file without the test of line 270: the variables are processed
\* whatever insert_chunks returned.
UploadVariablesOfAnyResult ==
    /\ upc = "insert"
    /\ pc[Uploader] = "idle"
    /\ IF last.result \in {"returned", "empty"}
       THEN /\ ProcessVariables(UploadCatalogue,
                                IF last.result = "returned"
                                THEN last.document_id ELSE 0)
            /\ upc' = "variables"
            /\ UNCHANGED <<response, pipeVars>>
       ELSE /\ Respond500(<<"exception">>)
            /\ UNCHANGED <<storeVars, queryVars, partitionedDir, chunkedDir,
                           annotatedDir, ppc, run, ret, stageLog, runs>>
    /\ UNCHANGED upFile

\* Lines 269-474 and 481: the result of insert_chunks decides between
\* process_variables and HTTP 500.
UploadVariables ==
    /\ upc = "insert"
    /\ pc[Uploader] = "idle"
    /\ IF last.result = "returned"
       THEN /\ ProcessVariables(UploadCatalogue, last.document_id)
            /\ upc' = "variables"
            /\ UNCHANGED <<response, pipeVars>>
       ELSE /\ Respond500(IF last.result = "raised" THEN <<"exception">>
                          ELSE StrOfHTTPException(ret[2]))
            /\ UNCHANGED <<storeVars, queryVars, partitionedDir, chunkedDir,
                           annotatedDir, ppc, run, ret, stageLog, runs>>
    /\ UNCHANGED upFile

\* Lines 474-479: the mapping of process_variables is returned.
UploadRespond ==
    /\ upc = "variables"
    /\ qpc = "done"
    /\ response' = Response(200, "success", <<>>, qDoc, results)
    /\ upc' = "responded"
    /\ UNCHANGED <<upFile, storeVars, queryVars, pipeVars>>

\* The upload directory may hold an earlier upload; nothing else exists.
InitUpload ==
    /\ InitStore
    /\ IdleQuery
    /\ inputDir \in {{}, {"b.pdf"}}
    /\ IdlePipe
    /\ IdleUpload
    /\ json_file = <<>>
    /\ IdleEnrich
    /\ IdleTagger

\* The steps of the calls upload_file is waiting for.
PipelineStep(A) ==
    upc = "pipeline" /\ A /\ UNCHANGED <<storeVars, queryVars, uploadVars>>

InsertStep(A) ==
    upc = "insert" /\ A /\ UNCHANGED <<queryVars, pipeVars, uploadVars>>

VariableStep(A) ==
    upc = "variables" /\ A /\ UNCHANGED <<pipeVars, uploadVars>>

NextUpload ==
    /\ \/ \E name \in UploadNames : UploadFile(name)
       \/ UploadProcess
       \/ PipelineStep(SinglePartition)
       \/ PipelineStep(SingleEnrich)
       \/ PipelineStep(SingleChunk)
       \/ PipelineStep(SingleCleanup)
       \/ PipelineStep(SingleAnnotate)
       \/ UploadStore
       \/ InsertStep(SelectDocument(Uploader))
       \/ InsertStep(InsertDocument(Uploader))
       \/ InsertStep(ChunkLoop(Uploader))
       \/ UploadVariables
       \/ VariableStep(ProcessVariable)
       \/ UploadRespond
    /\ UNCHANGED <<enrichVars, tagVars>>

SpecUpload == InitUpload /\ [][NextUpload]_vars

(***************************************************************************)
(* enrich_json_with_summaries (helpers/enrichments.py)                     *)
(*                                                                         *)
(* The oracle calls (enrich_text, summarize_image, summarize_table) may    *)
(* raise, and so may the write of the collection that follows one inside   *)
(* the same try (the file is then left as it was); the final save is       *)
(* taken to succeed.                                                       *)
(***************************************************************************)
\* An element: its type, its text ("absent": no such key) and
\* metadata.image_base64 ("absent": no such key, "": empty).
Element(type, text, image_base64) ==
    [type |-> type, text |-> text, image_base64 |-> image_base64]

ElementKinds ==
    { Element("NarrativeText", t, "absent") : t \in {"", "text"} }
    \cup { Element(ty, "text", b) :
             ty \in {"Image", "Table"}, b \in {"absent", "", "b64"} }
    \cup { Element("Title", t, "absent") : t \in {"absent", "text"} }
    \cup { Element("ListItem", "text", "absent") }

\* The element collections a partition file may hold.
Collections == UNION { [1..n -> ElementKinds] : n \in 0..MaxElements }

PhaseOrderImagesFirst == <<"Image", "NarrativeText", "Table", "Title">>

\* The loops of lines 202, 224, 251 and 277, in program order.
PhaseOrder == <<"NarrativeText", "Image", "Table", "Title">>

\* Lines 185-188: the elements of a type, by index, in collection order.
ElementsOf(data, type) ==
    SelectSeq([i \in 1..Len(data) |-> i], LAMBDA i : data[i].type = type)

RECURSIVE PhaseFrom(_, _)
\* The p-th loop or the first later one that has an element; "final"
\* when none has.
PhaseFrom(data, p) ==
    IF p > Len(PhaseOrder) THEN "final"
    ELSE IF ElementsOf(data, PhaseOrder[p]) # <<>> THEN PhaseOrder[p]
    ELSE PhaseFrom(data, p + 1)

PhaseIndex(phase) == CHOOSE p \in 1..Len(PhaseOrder) : PhaseOrder[p] = phase

\* Where the run stands after the k-th element of a loop.
After(data, phase, k) ==
    IF k < Len(ElementsOf(data, phase)) THEN <<phase, k + 1>>
    ELSE <<PhaseFrom(data, PhaseIndex(phase) + 1), 1>>

KeepStored(data, stored) == stored

\* json.dump(json_data, f): the file becomes the whole collection in
\* memory (lines 234-235, 263-264, 287-288, 297-298).
Checkpoint(data, stored) == data

\* The element the running loop stands at.
Current == ElementsOf(json_data, epc)[ePos]

\* One iteration: its outcome is logged; an exception that leaves the
\* function ends the run, otherwise the loop goes on.
Iteration(outcome, data, stored) ==
    /\ eLog' = Append(eLog, [index |-> Current, type |-> epc,
                             outcome |-> outcome])
    /\ json_data' = data
    /\ json_file' = stored
    /\ IF outcome = "raised"
       THEN epc' = "raised" /\ ePos' = ePos
       ELSE /\ epc' = After(json_data, epc, ePos)[1]
            /\ ePos' = After(json_data, epc, ePos)[2]

\* An assignment that gives every element the text.
WithTextInAll(i, text) ==
    [k \in 1..Len(json_data) |-> [json_data[k] EXCEPT !.text = text]]

\* item['text'] = <what the enrichment returned>
WithText(i, text) == [json_data EXCEPT ![i].text = text]

\* What an iteration that calls the enrichment can do: the call raises
\* ("failed"), the call returns and the write of the collection raises
\* ("write_failed"), or both go through.
SavedOutcomes == {"enriched", "write_failed", "failed"}

\* The text is assigned before the write, so it stays when the write
\* raises; the file changes only when the write goes through.
SavedIteration(out, text) ==
    Iteration(out,
              IF out = "failed" THEN json_data ELSE WithText(Current, text),
              IF out = "enriched"
              THEN Checkpoint(WithText(Current, text), json_file)
              ELSE json_file)

\* Lines 180-188: the file is loaded and the elements are sorted by type.
EnrichJsonWithSummaries ==
    /\ epc = "idle"
    /\ \E loaded \in BOOLEAN :
         IF loaded
         THEN /\ json_data' = json_file
              /\ epc' = PhaseFrom(json_file, 1)
              /\ ePos' = 1
         ELSE /\ json_data' = json_data
              /\ epc' = "raised"
              /\ ePos' = ePos
    /\ UNCHANGED <<json_file, eLog>>

\* Lines 202-216: a text that is not empty is tagged by the oracle;
\* nothing is written to the file.
EnrichNarrativeText ==
    /\ epc = "NarrativeText"
    /\ IF json_data[Current].text = ""
       THEN Iteration("skipped", json_data, json_file)
       ELSE \E ok \in BOOLEAN :
            IF ok
            THEN Iteration("enriched", WithText(Current, "tagged"), json_file)
            ELSE Iteration("failed", json_data, json_file)

\* Lines 224-243: the payload is read outside the try; an image with a
\* payload is summarized and the collection is written.
EnrichImage ==
    /\ epc = "Image"
    /\ IF json_data[Current].image_base64 = "absent"
       THEN Iteration("raised", json_data, json_file)
       ELSE IF json_data[Current].image_base64 = ""
       THEN Iteration("skipped", json_data, json_file)
       ELSE \E out \in SavedOutcomes : SavedIteration(out, "summary")

\* Lines 251-269: the payload is read inside the try.
EnrichTable ==
    /\ epc = "Table"
    /\ IF json_data[Current].image_base64 = "absent"
       THEN Iteration("failed", json_data, json_file)
       ELSE IF json_data[Current].image_base64 = ""
       THEN Iteration("skipped", json_data, json_file)
       ELSE \E out \in SavedOutcomes : SavedIteration(out, "summary")

\* Lines 277-293: the title is tagged by enrich_title (no oracle) and the
\* collection is written.
EnrichTitle ==
    /\ epc = "Title"
    /\ IF json_data[Current].text = "absent"
       THEN Iteration("failed", json_data, json_file)
       ELSE \E out \in SavedOutcomes \ {"failed"} :
              SavedIteration(out, "tagged")

\* Lines 295-301: the final save.
FinalSave ==
    /\ epc = "final"
    /\ json_file' = Checkpoint(json_data, json_file)
    /\ epc' = "done"
    /\ UNCHANGED <<json_data, ePos, eLog>>

\* A partition file holds some collection.
InitEnrich ==
    /\ InitStore
    /\ IdleQuery
    /\ inputDir = {}
    /\ IdlePipe
    /\ IdleUpload
    /\ json_file \in Collections
    /\ IdleEnrich
    /\ IdleTagger

NextEnrich ==
    /\ \/ EnrichJsonWithSummaries
       \/ EnrichNarrativeText
       \/ EnrichImage
       \/ EnrichTable
       \/ EnrichTitle
       \/ FinalSave
    /\ UNCHANGED <<storeVars, queryVars, pipeVars, uploadVars, tagVars>>

SpecEnrich == InitEnrich /\ [][NextEnrich]_vars

(***************************************************************************)
(* The rule tagger enrich_title (helpers/enrichments.py)                   *)
(*                                                                         *)
(* Texts are tuples of characters.  The patterns of the re module are      *)
(* built from character sets, sequences, alternatives, greedy repeats and  *)
(* the word boundary; Match gives the positions at which a pattern can     *)
(* end in the order in which backtracking tries them, so that its head is  *)
(* the match re reports.                                                   *)
(***************************************************************************)
LowerCase ==
    <<"a", "b", "c", "d", "e", "f", "g", "h", "i", "j", "k", "l", "m",
      "n", "o", "p", "q", "r", "s", "t", "u", "v", "w", "x", "y", "z">>

UpperCase ==
    <<"A", "B", "C", "D", "E", "F", "G", "H", "I", "J", "K", "L", "M",
      "N", "O", "P", "Q", "R", "S", "T", "U", "V", "W", "X", "Y", "Z">>

Capitals == Range(UpperCase)
Letters == Range(LowerCase) \cup Capitals
Digits == {"0", "1", "2", "3", "4", "5", "6", "7", "8", "9"}
WordChars == Letters \cup Digits \cup {"_"}

\* A character under re.IGNORECASE: itself and its other case.
BothCases(c) ==
    IF c \in Letters
    THEN LET k == CHOOSE k \in 1..Len(LowerCase) :
                     LowerCase[k] = c \/ UpperCase[k] = c
         IN {LowerCase[k], UpperCase[k]}
    ELSE {c}

\* Patterns.
Chars(S) == [op |-> "set", set |-> S]
NotChars(S) == [op |-> "nset", set |-> S]
Cat(parts) == [op |-> "cat", parts |-> parts]
Alt(parts) == [op |-> "alt", parts |-> parts]
Rep(r, min, max) == [op |-> "rep", of |-> r, min |-> min, max |-> max]
Opt(r) == Rep(r, 0, 1)
Plus(r) == Rep(r, 1, -1)
Star(r) == Rep(r, 0, -1)
WordBoundary == [op |-> "b"]

\* A literal, and a literal under re.IGNORECASE.
Lit(w) == Cat([k \in 1..Len(w) |-> Chars({w[k]})])
LitI(w) == Cat([k \in 1..Len(w) |-> Chars(BothCases(w[k]))])

\* (w1|w2|...) under re.IGNORECASE.
AnyOf(ws) == Alt([k \in 1..Len(ws) |-> LitI(ws[k])])

\* \b at position i: the characters before and after differ in being
\* word characters.
Boundary(s, i) ==
    (i > 1 /\ s[i - 1] \in WordChars) # (i <= Len(s) /\ s[i] \in WordChars)

RECURSIVE Match(_, _, _)
RECURSIVE MatchEach(_, _, _)
RECURSIVE MatchCat(_, _, _, _)
RECURSIVE MatchAlt(_, _, _, _)
RECURSIVE MatchRep(_, _, _, _, _)
RECURSIVE MatchMore(_, _, _, _, _)

\* The positions after a match of r that starts at position i of s.
Match(r, s, i) ==
    CASE r.op = "set" ->
           IF i <= Len(s) /\ s[i] \in r.set THEN <<i + 1>> ELSE <<>>
      [] r.op = "nset" ->
           IF i <= Len(s) /\ s[i] \notin r.set THEN <<i + 1>> ELSE <<>>
      [] r.op = "b" -> IF Boundary(s, i) THEN <<i>> ELSE <<>>
      [] r.op = "cat" -> MatchCat(r.parts, 1, s, <<i>>)
      [] r.op = "alt" -> MatchAlt(r.parts, 1, s, i)
      [] r.op = "rep" -> MatchRep(r.of, r.min, r.max, s, i)

MatchEach(r, s, starts) ==
    IF starts = <<>> THEN <<>>
    ELSE Match(r, s, Head(starts)) \o MatchEach(r, s, Tail(starts))

MatchCat(parts, k, s, starts) ==
    IF k > Len(parts) \/ starts = <<>> THEN starts
    ELSE MatchCat(parts, k + 1, s, MatchEach(parts[k], s, starts))

MatchAlt(parts, k, s, i) ==
    IF k > Len(parts) THEN <<>>
    ELSE Match(parts[k], s, i) \o MatchAlt(parts, k + 1, s, i)

\* Greedy: one more repetition is tried before stopping.
MatchRep(r, min, max, s, i) ==
    (IF max = 0 THEN <<>>
     ELSE MatchMore(r, min, max, s,
                    SelectSeq(Match(r, s, i), LAMBDA e : e > i)))
    \o (IF min <= 0 THEN <<i>> ELSE <<>>)

MatchMore(r, min, max, s, ends) ==
    IF ends = <<>> THEN <<>>
    ELSE MatchRep(r, min - 1, max - 1, s, Head(ends))
         \o MatchMore(r, min, max, s, Tail(ends))

RECURSIVE FindIter(_, _, _)
\* re.finditer from position i: the spans <<start, end>> of the
\* non-overlapping matches, left to right (end: the position after).
FindIter(r, s, i) ==
    IF i > Len(s) + 1 THEN <<>>
    ELSE LET m == Match(r, s, i)
         IN IF m = <<>> THEN FindIter(r, s, i + 1)
            ELSE <<<<i, Head(m)>>>>
                 \o FindIter(r, s, IF Head(m) = i THEN i + 1 ELSE Head(m))

\* re.search finds a match.
Search(r, s) == \E i \in 1..(Len(s) + 1) : Match(r, s, i) # <<>>

\* (?:license|service|maintenance|support|software|subscription)
LegalPhraseHeads ==
    <<
      <<"l", "i", "c", "e", "n", "s", "e">>,
      <<"s", "e", "r", "v", "i", "c", "e">>,
      <<"m", "a", "i", "n", "t", "e", "n", "a", "n", "c", "e">>,
      <<"s", "u", "p", "p", "o", "r", "t">>,
      <<"s", "o", "f", "t", "w", "a", "r", "e">>,
      <<"s", "u", "b", "s", "c", "r", "i", "p", "t", "i", "o", "n">>
    >>

\* (?:agreement|contract)
LegalPhraseTails ==
    <<
      <<"a", "g", "r", "e", "e", "m", "e", "n", "t">>,
      <<"c", "o", "n", "t", "r", "a", "c", "t">>
    >>

\* (?:Inc\.|LLC|Ltd\.|Corp\.|Corporation|Company|Co\.|Holdings|Group)
CompanySuffixes ==
    <<
      <<"I", "n", "c", ".">>,
      <<"L", "L", "C">>,
      <<"L", "t", "d", ".">>,
      <<"C", "o", "r", "p", ".">>,
      <<"C", "o", "r", "p", "o", "r", "a", "t", "i", "o", "n">>,
      <<"C", "o", "m", "p", "a", "n", "y">>,
      <<"C", "o", ".">>,
      <<"H", "o", "l", "d", "i", "n", "g", "s">>,
      <<"G", "r", "o", "u", "p">>
    >>

\* (?:SAMPLE|TEST)
PartyPhraseHeads ==
    <<
      <<"S", "A", "M", "P", "L", "E">>,
      <<"T", "E", "S", "T">>
    >>

\* (?:LICENSOR|LICENSEE|VENDOR|CUSTOMER|SUPPLIER|CONTRACTOR|PARTNER|BUYER|SELLER|PARTY)
PartyPhraseTails ==
    <<
      <<"L", "I", "C", "E", "N", "S", "O", "R">>,
      <<"L", "I", "C", "E", "N", "S", "E", "E">>,
      <<"V", "E", "N", "D", "O", "R">>,
      <<"C", "U", "S", "T", "O", "M", "E", "R">>,
      <<"S", "U", "P", "P", "L", "I", "E", "R">>,
      <<"C", "O", "N", "T", "R", "A", "C", "T", "O", "R">>,
      <<"P", "A", "R", "T", "N", "E", "R">>,
      <<"B", "U", "Y", "E", "R">>,
      <<"S", "E", "L", "L", "E", "R">>,
      <<"P", "A", "R", "T", "Y">>
    >>

\* (licensor|licensee|vendor|customer)
ContractParties ==
    <<
      <<"l", "i", "c", "e", "n", "s", "o", "r">>,
      <<"l", "i", "c", "e", "n", "s", "e", "e">>,
      <<"v", "e", "n", "d", "o", "r">>,
      <<"c", "u", "s", "t", "o", "m", "e", "r">>
    >>

\* (agreement|contract|license|amendment|addendum|deed|memorandum|terms|conditions)
LegalWords ==
    <<
      <<"a", "g", "r", "e", "e", "m", "e", "n", "t">>,
      <<"c", "o", "n", "t", "r", "a", "c", "t">>,
      <<"l", "i", "c", "e", "n", "s", "e">>,
      <<"a", "m", "e", "n", "d", "m", "e", "n", "t">>,
      <<"a", "d", "d", "e", "n", "d", "u", "m">>,
      <<"d", "e", "e", "d">>,
      <<"m", "e", "m", "o", "r", "a", "n", "d", "u", "m">>,
      <<"t", "e", "r", "m", "s">>,
      <<"c", "o", "n", "d", "i", "t", "i", "o", "n", "s">>
    >>

\* (licensor|licensee|vendor|customer|supplier|contractor|partner|buyer|seller|party|parties)
PartyWords ==
    <<
      <<"l", "i", "c", "e", "n", "s", "o", "r">>,
      <<"l", "i", "c", "e", "n", "s", "e", "e">>,
      <<"v", "e", "n", "d", "o", "r">>,
      <<"c", "u", "s", "t", "o", "m", "e", "r">>,
      <<"s", "u", "p", "p", "l", "i", "e", "r">>,
      <<"c", "o", "n", "t", "r", "a", "c", "t", "o", "r">>,
      <<"p", "a", "r", "t", "n", "e", "r">>,
      <<"b", "u", "y", "e", "r">>,
      <<"s", "e", "l", "l", "e", "r">>,
      <<"p", "a", "r", "t", "y">>,
      <<"p", "a", "r", "t", "i", "e", "s">>
    >>

\* (service|product|software|platform|system|solution|equipment|goods)
ProductWords ==
    <<
      <<"s", "e", "r", "v", "i", "c", "e">>,
      <<"p", "r", "o", "d", "u", "c", "t">>,
      <<"s", "o", "f", "t", "w", "a", "r", "e">>,
      <<"p", "l", "a", "t", "f", "o", "r", "m">>,
      <<"s", "y", "s", "t", "e", "m">>,
      <<"s", "o", "l", "u", "t", "i", "o", "n">>,
      <<"e", "q", "u", "i", "p", "m", "e", "n", "t">>,
      <<"g", "o", "o", "d", "s">>
    >>

\* (draft|final|revised|amended|executed|confidential|private)
StatusWords ==
    <<
      <<"d", "r", "a", "f", "t">>,
      <<"f", "i", "n", "a", "l">>,
      <<"r", "e", "v", "i", "s", "e", "d">>,
      <<"a", "m", "e", "n", "d", "e", "d">>,
      <<"e", "x", "e", "c", "u", "t", "e", "d">>,
      <<"c", "o", "n", "f", "i", "d", "e", "n", "t", "i", "a", "l">>,
      <<"p", "r", "i", "v", "a", "t", "e">>
    >>

\* (?:worldwide|global|international|national|regional|domestic)
TerritoryWords ==
    <<
      <<"w", "o", "r", "l", "d", "w", "i", "d", "e">>,
      <<"g", "l", "o", "b", "a", "l">>,
      <<"i", "n", "t", "e", "r", "n", "a", "t", "i", "o", "n", "a", "l">>,
      <<"n", "a", "t", "i", "o", "n", "a", "l">>,
      <<"r", "e", "g", "i", "o", "n", "a", "l">>,
      <<"d", "o", "m", "e", "s", "t", "i", "c">>
    >>

\* Jan(?:uary)?|Feb(?:ruary)?|...|May|...|Dec(?:ember)?: the short name and
\* the optional rest.
Months ==
    <<
      <<<<"J", "a", "n">>, <<"u", "a", "r", "y">>>>,
      <<<<"F", "e", "b">>, <<"r", "u", "a", "r", "y">>>>,
      <<<<"M", "a", "r">>, <<"c", "h">>>>,
      <<<<"A", "p", "r">>, <<"i", "l">>>>,
      <<<<"M", "a", "y">>, <<>>>>,
      <<<<"J", "u", "n">>, <<"e">>>>,
      <<<<"J", "u", "l">>, <<"y">>>>,
      <<<<"A", "u", "g">>, <<"u", "s", "t">>>>,
      <<<<"S", "e", "p">>, <<"t", "e", "m", "b", "e", "r">>>>,
      <<<<"O", "c", "t">>, <<"o", "b", "e", "r">>>>,
      <<<<"N", "o", "v">>, <<"e", "m", "b", "e", "r">>>>,
      <<<<"D", "e", "c">>, <<"e", "m", "b", "e", "r">>>>
    >>

SpaceChars == {" ", "\t", "\n"}
Digit == Chars(Digits)
AlNum == Chars(Letters \cup Digits)
Spaces == Plus(Chars(SpaceChars))

\* phrase_patterns, under re.IGNORECASE: the pattern and its tag_type.
LegalPhrasePattern ==
    Cat(<<WordBoundary, AnyOf(LegalPhraseHeads), Spaces,
          AnyOf(LegalPhraseTails), Opt(Chars(BothCases("s"))),
          WordBoundary>>)

CompanyPattern ==
    Cat(<<WordBoundary, Chars(Letters), Star(Chars(Letters)),
          Plus(Cat(<<Spaces, Chars(Letters), Star(Chars(Letters))>>)),
          Star(Chars(SpaceChars)), Opt(AnyOf(CompanySuffixes)),
          WordBoundary>>)

PartyPhrasePattern ==
    Cat(<<WordBoundary, AnyOf(PartyPhraseHeads), Spaces,
          AnyOf(PartyPhraseTails), WordBoundary>>)

LegalTag == <<"<", "L", "E", "G", "A", "L", ">">>
CompanyTag == <<"<", "C", "O", "M", "P", "A", "N", "Y", ">">>
PartyTag == <<"<", "P", "A", "R", "T", "Y", ">">>
ProductTag == <<"<", "P", "R", "O", "D", "U", "C", "T", ">">>
StatusTag == <<"<", "S", "T", "A", "T", "U", "S", ">">>
DateTag == <<"<", "D", "A", "T", "E", ">">>
IdTag == <<"<", "I", "D", ">">>
TerritoryTag == <<"<", "T", "E", "R", "R", "I", "T", "O", "R", "Y", ">">>

phrase_patterns ==
    << <<LegalPhrasePattern, LegalTag>>,
       <<CompanyPattern, CompanyTag>>,
       <<PartyPhrasePattern, PartyTag>> >>

\* single_word_patterns, under re.IGNORECASE.
WordPattern(ws) == Cat(<<WordBoundary, AnyOf(ws), WordBoundary>>)

NumericDate ==
    Cat(<<WordBoundary, Rep(Digit, 1, 2), Chars({"-", "/"}),
          Rep(Digit, 1, 2), Chars({"-", "/"}), Rep(Digit, 2, 4),
          WordBoundary>>)

MonthName ==
    Alt([k \in 1..Len(Months) |->
            Cat(<<LitI(Months[k][1]), Opt(LitI(Months[k][2]))>>)])

WrittenDate ==
    Cat(<<WordBoundary, MonthName, Spaces, Rep(Digit, 1, 2), Chars({","}),
          Spaces, Rep(Digit, 4, 4), WordBoundary>>)

DatePattern == Alt(<<NumericDate, WrittenDate>>)

IdPattern ==
    Alt(<<Cat(<<WordBoundary, Plus(AlNum), Chars({"-"}), Plus(AlNum),
                Star(Cat(<<Chars({"-"}), Plus(AlNum)>>)), WordBoundary>>),
          Cat(<<WordBoundary, Chars(BothCases("v")), Plus(Digit),
                Star(Cat(<<Chars({"."}), Plus(Digit)>>)), WordBoundary>>),
          Cat(<<Chars({"#"}), Plus(Digit), WordBoundary>>)>>)

single_word_patterns ==
    << <<WordPattern(LegalWords), LegalTag>>,
       <<WordPattern(PartyWords), PartyTag>>,
       <<WordPattern(ProductWords), ProductTag>>,
       <<WordPattern(StatusWords), StatusTag>>,
       <<DatePattern, DateTag>>,
       <<IdPattern, IdTag>>,
       <<WordPattern(TerritoryWords), TerritoryTag>> >>

\* r'[A-Z]', without re.IGNORECASE.
CapitalPattern == Chars(Capitals)

\* r'\b(licensor|licensee|vendor|customer)\b', under re.IGNORECASE.
ContractPartyPattern == WordPattern(ContractParties)

\* r'<[^>]+>[^<]*' + re.escape(matched), without re.IGNORECASE.
AlreadyTaggedPattern(matched) ==
    Cat(<<Chars({"<"}), Plus(NotChars({">"})), Chars({">"}),
          Star(NotChars({"<"})), Lit(matched)>>)

RECURSIVE StripChars(_, _)
\* str.strip(chars)
StripChars(s, chars) ==
    IF s = <<>> THEN s
    ELSE IF Head(s) \in chars THEN StripChars(Tail(s), chars)
    ELSE IF s[Len(s)] \in chars THEN StripChars(SubSeq(s, 1, Len(s) - 1), chars)
    ELSE s

\* s[start:end] of a span.
Slice(s, span) == SubSeq(s, span[1], span[2] - 1)

\* s[:start] + opening + s[start:end] + closing + s[end:]
Spliced(s, span, opening, closing) ==
    SubSeq(s, 1, span[1] - 1) \o opening \o Slice(s, span) \o closing
    \o SubSeq(s, span[2], Len(s))

\* f"</{tag_type.strip('<>')}": the closing text has no ">".
ClosingOf(tag_type) == <<"<", "/">> \o StripChars(tag_type, {"<", ">"})

\* enriched_text[max(0, start-10):end+10]
Nearby(s, span) ==
    SubSeq(s, IF span[1] > 10 THEN span[1] - 10 ELSE 1,
              IF span[2] + 9 < Len(s) THEN span[2] + 9 ELSE Len(s))

Reversed(s) == [k \in 1..Len(s) |-> s[Len(s) + 1 - k]]

\* One iteration of the first loop.
TagPhrase(text, span, tag_type) ==
    LET matched_text == Slice(text, span)
    IN IF tag_type = CompanyTag /\ ~Search(CapitalPattern, matched_text)
       THEN text
       ELSE IF tag_type = CompanyTag
               /\ Search(ContractPartyPattern, Nearby(text, span))
       THEN Spliced(text, span, CompanyTag \o PartyTag,
                    <<"<", "/", "P", "A", "R", "T", "Y", ">",
                      "<", "/", "C", "O", "M", "P", "A", "N", "Y", ">">>)
       ELSE Spliced(text, span, tag_type, ClosingOf(tag_type))

\* One iteration of the second loop.
TagWord(text, span, tag_type) ==
    IF Search(AlreadyTaggedPattern(Slice(text, span)), text)
    THEN text
    ELSE Spliced(text, span, tag_type, ClosingOf(tag_type))

RECURSIVE TagPhrases(_, _, _)
\* for match in reversed(list(matches)), first loop.
TagPhrases(text, spans, tag_type) ==
    IF spans = <<>> THEN text
    ELSE TagPhrases(TagPhrase(text, Head(spans), tag_type), Tail(spans),
                    tag_type)

RECURSIVE TagWords(_, _, _)
\* for match in reversed(list(matches)), second loop.
TagWords(text, spans, tag_type) ==
    IF spans = <<>> THEN text
    ELSE TagWords(TagWord(text, Head(spans), tag_type), Tail(spans),
                  tag_type)

\* The passes of enrich_title, in program order.
TagPasses == Len(phrase_patterns) + Len(single_word_patterns)

PhrasePass(text, k) ==
    TagPhrases(text, Reversed(FindIter(phrase_patterns[k][1], text, 1)),
               phrase_patterns[k][2])

WordPass(text, k) ==
    TagWords(text, Reversed(FindIter(single_word_patterns[k][1], text, 1)),
             single_word_patterns[k][2])

\* The titles on which the tagger is run: up to MaxTitleWords words of
\* the vocabulary separated by single spaces, and the licence period.
TitleWords ==
    { <<"S", "A", "M", "P", "L", "E">>,
      <<"L", "I", "C", "E", "N", "S", "O", "R">>,
      <<"l", "i", "c", "e", "n", "s", "e">>,
      <<"A", "g", "r", "e", "e", "m", "e", "n", "t">>,
      <<"h", "e", "l", "l", "o">>,
      <<"0", "1", "/", "0", "7", "/", "2", "0", "2", "0">> }

LicensePeriodTitle ==
    <<"l", "i", "c", "e", "n", "s", "e", " ", "p", "e", "r", "i", "o", "d",
      " ", "i", "s", " ", "0", "1", "/", "0", "7", "/", "2", "0", "2", "0",
      "-", "0", "5", "/", "0", "1", "/", "2", "0", "2", "3">>

RECURSIVE Joined(_)
Joined(ws) ==
    IF ws = <<>> THEN <<>>
    ELSE IF Len(ws) = 1 THEN ws[1]
    ELSE ws[1] \o <<" ">> \o Joined(Tail(ws))

Titles ==
    { Joined(ws) : ws \in UNION { [1..n -> TitleWords] : n \in 0..MaxTitleWords } }
    \cup {LicensePeriodTitle}

\* enrich_title(title_text): enriched_text = title_text.
InitTagger ==
    /\ title_text \in Titles
    /\ enriched_text = title_text
    /\ tagPass = 1

\* for pattern, tag_type in phrase_patterns
ApplyPhrasePattern ==
    /\ tagPass \in 1..Len(phrase_patterns)
    /\ enriched_text' = PhrasePass(enriched_text, tagPass)
    /\ tagPass' = tagPass + 1
    /\ UNCHANGED title_text

\* for pattern, tag_type in single_word_patterns
ApplySinglePattern ==
    /\ tagPass \in (Len(phrase_patterns) + 1)..TagPasses
    /\ enriched_text' =
           WordPass(enriched_text, tagPass - Len(phrase_patterns))
    /\ tagPass' = tagPass + 1
    /\ UNCHANGED title_text

InitTag ==
    /\ InitStore
    /\ IdleQuery
    /\ IdlePipe
    /\ inputDir = {}
    /\ IdleUpload
    /\ IdleEnrich
    /\ json_file = <<>>
    /\ InitTagger

NextTag ==
    /\ (ApplyPhrasePattern \/ ApplySinglePattern)
    /\ UNCHANGED <<storeVars, queryVars, pipeVars, uploadVars, enrichVars>>

SpecTag == InitTag /\ [][NextTag]_vars

(***************************************************************************)
(* The batch loops that call an oracle                                     *)
(*                                                                         *)
(* A behaviour is a run of enrich_json_with_summaries over a partition     *)
(* file, or calls of insert_chunks and process_embeddings on the store,    *)
(* or a call of process_variables on a filled store.                       *)
(***************************************************************************)
QueryRun ==
    /\ json_file = <<>>
    /\ calls = 0
    /\ chunks = QueryChunks

StoreRun == json_file = <<>> /\ ~QueryRun

EnrichRun == json_file # <<>>

InitOracle == InitEnrich \/ InitQuery

\* One caller of insert_chunks and process_embeddings.
NextLoops ==
    /\ \E w \in SingleWriter : StoreStep(w, MaxRaceCalls)
    /\ UNCHANGED <<queryVars, pipeVars, uploadVars, enrichVars, tagVars>>

NextOracle ==
    \/ EnrichRun /\ NextEnrich
    \/ StoreRun /\ NextLoops
    \/ QueryRun /\ NextQuery

SpecOracle == InitOracle /\ [][NextOracle]_vars

(***************************************************************************)
(* Claims about process_variables                                          *)
(***************************************************************************)
\* C4: a variable whose similarity search returned zero chunks gets no
\* generation call and its name is not in the mapping (so never there
\* with the value "Not found").
C4_NoChunksMeansAbsent ==
    \A i \in 1..Len(qLog) :
        (qLog[i].embedded /\ qLog[i].found = <<>>) =>
            /\ ~qLog[i].generated
            /\ qVars[i].name \notin DOMAIN results

\* A finished run in which one variable's search came back empty and
\* another variable was answered.
C4_Witness ==
    /\ qpc = "done"
    /\ \E i, j \in 1..Len(qLog) :
         /\ qLog[i].embedded
         /\ qLog[i].found = <<>>
         /\ qLog[j].answered
         /\ qVars[j].name \in DOMAIN results

\* The three steps of variable i succeeded.
Succeeded(i) == qLog[i].embedded /\ qLog[i].found # <<>> /\ qLog[i].answered

\* C5: process_variables attempts every variable of the catalogue and
\* returns a mapping that holds exactly the variables whose embedding,
\* retrieval and generation succeeded, each with its trimmed answer,
\* wherever the failed variables stand.
C5_FailuresAreIsolated ==
    qpc = "done" =>
        /\ Len(qLog) = Len(qVars)
        /\ DOMAIN results = { qVars[i].name : i \in { k \in 1..Len(qLog) : Succeeded(k) } }
        /\ \A i \in 1..Len(qLog) :
              Succeeded(i) => results[qVars[i].name] = Strip(qLog[i].raw)

\* A finished run whose first and last variables failed, in different
\* steps, and whose middle variable was answered.
C5_Witness ==
    /\ qpc = "done"
    /\ Len(qVars) = 3
    /\ ~qLog[1].embedded
    /\ Succeeded(2)
    /\ qLog[3].generated /\ ~qLog[3].answered
    /\ DOMAIN results = {qVars[2].name}

\* The rows a search of document_id may return under the scores sims:
\* the rows of that document that have an embedding and score above
\* -0.2, best first, five at most.
SearchResult(sims, document_id) ==
    FirstN(Ranked({ i \in 1..Len(chunks) :
                      /\ chunks[i].document_id = document_id
                      /\ chunks[i].embedding # NULL
                      /\ sims[i] > -2 },
                  sims), 5)

RecordsOf(f) == { d \in documents : d.filename = f }

\* The step in which caller w finishes the item loop of insert_chunks.
InsertReturns(w) == pc[w] = "loop" /\ pc'[w] = "idle"

\* The step in which caller w finishes the loop of process_embeddings.
BackfillReturns(w) == pc[w] = "pe_loop" /\ pc'[w] = "idle"

\* The chunks process_embeddings called update_chunk_embedding for.
UpdateCalls(outs) == { i \in DOMAIN outs : outs[i].embedded }

\* A chunk whose embedding call failed, and whose insert the database
\* accepts, is stored as the row of its item with no embedding.
InsertKeepsUnembedded(w) ==
    \A i \in 1..loc[w].n :
        (last'.outs[i].inserted /\ ~last'.outs[i].embedded) =>
            /\ last'.rows[i] \in (Len(chunks) + 1)..Len(chunks')
            /\ chunks'[last'.rows[i]] =
                  ChunkData(i, loc[w].document_id, loc[w].filename, NULL)

\* process_embeddings leaves alone every chunk that has an embedding and
\* every chunk of another document.
BackfillLeavesOthers(w) ==
    /\ Len(chunks') = Len(chunks)
    /\ \A i \in 1..Len(chunks) :
         (chunks[i].embedding # NULL
            \/ chunks[i].document_id # loc[w].document_id) =>
              /\ chunks'[i] = chunks[i]
              /\ i \notin UpdateCalls(last'.outs)

\* The items of a finished loop whose row the database accepted.
Accepted(outs) == { i \in DOMAIN outs : outs[i].inserted }

\* C16: the item loop of insert_chunks attempts every item, and the
\* table grows by exactly the rows of the items whose insert succeeded,
\* in item order, whatever happened to the items before and after them;
\* no row is taken back.
C16_ItemFailuresAreIsolated ==
    [][\A w \in Writers :
          InsertReturns(w) =>
             LET outs == last'.outs
                 ok == SortedSeq(Accepted(outs))
             IN /\ DOMAIN outs = 1..loc[w].n
                /\ Len(chunks') = Len(chunks) + Len(ok)
                /\ \A r \in 1..Len(chunks) : chunks'[r] = chunks[r]
                /\ \A k \in 1..Len(ok) :
                      /\ chunks'[Len(chunks) + k].element_id = ok[k]
                      /\ chunks'[Len(chunks) + k].text =
                            ItemText(loc[w].filename, ok[k])
                      /\ chunks'[Len(chunks) + k].document_id =
                            loc[w].document_id]_vars

\* A call whose first item failed to insert and whose second item is
\* the last row of the table.
C16_Witness ==
    /\ last.op = "insert"
    /\ last.result = "returned"
    /\ Len(last.outs) = 2
    /\ ~last.outs[1].inserted
    /\ last.outs[2].inserted
    /\ chunks # <<>>
    /\ chunks[Len(chunks)].element_id = 2
    /\ chunks[Len(chunks)].document_id = last.document_id

\* The step in which insert_chunks ends before the document lookup:
\* the file could not be read, or it holds an empty collection.
InsertEndsAtOpen(w) ==
    /\ pc[w] = "idle"
    /\ pc' = pc
    /\ calls' = calls + 1
    /\ last'.op = "insert"

\* The step in which insert_chunks ends inside get_or_create_document_id.
InsertEndsInLookup(w) == pc[w] \in {"select", "insert_doc"} /\ pc'[w] = "idle"

\* C17: insert_chunks raises exactly when the file cannot be read or
\* holds an empty collection; once the file is read and not empty it
\* returns the document_id, whatever the lookup-or-create does.
C17_RaisesOnlyAtOpen ==
    [][\A w \in Writers :
          /\ InsertEndsAtOpen(w) => last'.result = "raised"
          /\ ~InsertEndsInLookup(w)
          /\ InsertReturns(w) => last'.result = "returned"]_vars

\* C17 as amended: insert_chunks ends before the lookup either raising
\* (unreadable file) or returning None (empty collection); a failure of
\* get_or_create_document_id makes it raise, leaving the chunks table
\* as it was; once the document_id is known the call returns it, a
\* document_id of a record of the file's name, whatever the items did.
C17_RaisesOnUnreadableOrLookup ==
    [][\A w \in Writers :
          /\ InsertEndsAtOpen(w) =>
                /\ last'.result \in {"raised", "empty"}
                /\ chunks' = chunks
                /\ documents' = documents
          /\ InsertEndsInLookup(w) =>
                /\ last'.op = "insert"
                /\ last'.result = "raised"
                /\ chunks' = chunks
          /\ InsertReturns(w) =>
                /\ last'.result = "returned"
                /\ last'.document_id = loc[w].document_id
                /\ [document_id |-> loc[w].document_id,
                    filename |-> loc[w].filename] \in documents]_vars

\* A call on an empty collection ended without raising, after an
\* earlier call had stored a document.
C17_Witness ==
    /\ last.op = "insert"
    /\ last.result = "empty"
    /\ documents # {}
    /\ pc["w1"] = "idle"

\* C1 (as claimed): a chunk whose embedding call fails is still inserted
\* with its embedding unset, and a later process_embeddings(document_id)
\* writes an embedding to exactly the chunks of that document whose
\* embedding is unset, never updating a chunk that already has one.
C1_BackfillFillsExactlyUnset ==
    [][\A w \in Writers :
          /\ InsertReturns(w) => InsertKeepsUnembedded(w)
          /\ BackfillReturns(w) =>
               /\ BackfillLeavesOthers(w)
               /\ \A i \in 1..Len(chunks) :
                    (chunks[i].embedding = NULL
                       /\ chunks[i].document_id = loc[w].document_id) =>
                         chunks'[i].embedding = Vec(chunks[i].text)]_vars

\* C1 (amended): as above, but process_embeddings fills, among the unset
\* chunks of the document, exactly those whose embedding call returns a
\* vector and whose update goes through; the others stay unset.
C1_BackfillFillsUnsetThatEmbed ==
    [][\A w \in Writers :
          /\ InsertReturns(w) => InsertKeepsUnembedded(w)
          /\ BackfillReturns(w) =>
               /\ BackfillLeavesOthers(w)
               /\ \A i \in 1..Len(chunks) :
                    (chunks[i].embedding = NULL
                       /\ chunks[i].document_id = loc[w].document_id) =>
                         /\ i \in DOMAIN last'.outs
                         /\ chunks'[i] =
                              [chunks[i] EXCEPT !.embedding =
                                  IF Writes(last'.outs[i])
                                  THEN Vec(chunks[i].text) ELSE NULL]]_vars

\* A backfill that found an embedded chunk and two unset ones of the
\* document, filled one and failed on the other.
C1_Witness ==
    /\ last.op = "embed"
    /\ last.result = "returned"
    /\ \E i, k \in Range(last.todo) :
         /\ Writes(last.outs[i])
         /\ chunks[i].embedding = Vec(chunks[i].text)
         /\ ~last.outs[k].embedded
         /\ chunks[k].embedding = NULL
    /\ \E j \in 1..Len(chunks) :
         /\ j \notin Range(last.todo)
         /\ chunks[j].document_id = last.document_id
         /\ chunks[j].embedding # NULL

\* C2: with one caller, any two insert_chunks calls on files that derive
\* the same filename return the same document_id, and a call that finds the
\* filename's record creates no new one.
C2_SameDocumentId ==
    /\ \A r1, r2 \in returned :
         FilenameOf([base |-> r1.path]) = FilenameOf([base |-> r2.path]) =>
            r1.document_id = r2.document_id
    /\ (last.op = "insert" /\ last.result = "returned" /\ last.existed) =>
          /\ ~last.created
          /\ Cardinality(RecordsOf(last.filename)) = 1

\* Two calls on different files of the same filename have returned.
C2_Witness ==
    /\ last.op = "insert"
    /\ last.result = "returned"
    /\ last.existed
    /\ \E r1, r2 \in returned :
         /\ r1.path # r2.path
         /\ FilenameOf([base |-> r1.path]) = FilenameOf([base |-> r2.path])
         /\ FilenameOf([base |-> r1.path]) = last.filename

\* C3 (as claimed): the documents table holds at most one record per
\* filename, whatever the interleaving of the callers' selects and inserts.
C3_OneRecordPerFilename ==
    \A f \in Filenames : Cardinality(RecordsOf(f)) <= 1

\* C3 (amended): the documents table holds at most one record per filename
\* unless a caller ran the select for that filename while another caller
\* stood between its own select and insert for it.
C3_OneRecordUnlessOverlapped ==
    \A f \in Filenames \ overlapped : Cardinality(RecordsOf(f)) <= 1

\* Two callers resolved the same filename, one after the other, and both
\* are in their item loops.
C3_Witness ==
    /\ \A w \in Writers : pc[w] = "loop"
    /\ \E f \in Filenames \ overlapped :
         /\ \A w \in Writers : loc[w].filename = f
         /\ Cardinality(RecordsOf(f)) = 1

\* C23: every chunk row belongs to exactly one document, the one of its
\* source_file; the rows a call of insert_chunks wrote carry the
\* document_id that call resolved for its filename and that filename;
\* an embedding is the whole vector of the row's text or is unset.
C23_RowsBelongToOneDocument ==
    /\ \A i \in 1..Len(chunks) :
         /\ Cardinality({ d \in documents :
                            d.document_id = chunks[i].document_id }) = 1
         /\ \A d \in documents :
              d.document_id = chunks[i].document_id
                 => d.filename = chunks[i].source_file
         /\ chunks[i].embedding \in {<<>>, <<"vec", chunks[i].text>>}
    /\ (last.op = "insert" /\ last.result = "returned") =>
         \A k \in 1..Len(last.rows) :
            last.rows[k] # 0 =>
               /\ chunks[last.rows[k]].document_id = last.document_id
               /\ chunks[last.rows[k]].source_file = last.filename

\* A call has just written a row with a vector and a row without one,
\* and the table holds the records of two documents.
C23_Witness ==
    /\ last.op = "insert"
    /\ last.result = "returned"
    /\ Cardinality(documents) = 2
    /\ \E j, k \in 1..Len(last.rows) :
         /\ last.rows[j] # 0
         /\ last.rows[k] # 0
         /\ chunks[last.rows[j]].embedding = <<>>
         /\ chunks[last.rows[k]].embedding # <<>>

(***************************************************************************)
(* Claims about the pipeline orchestrator                                  *)
(***************************************************************************)
NamedStages == {"Partitioning", "Enriching", "Chunking", "Annotating"}

\* The entries of the running call's log for a stage.
EntriesOf(stage) == { i \in 1..Len(stageLog) : stageLog[i].stage = stage }

\* The stage failed in the running call.
StageFailed(stage) == \E i \in EntriesOf(stage) : ~stageLog[i].ok

\* C6: when the partitioning stage of a run has failed, the run executes
\* none of the enrichment, chunking and annotation stages, whichever
\* entry point started it.
C6_PartitionFailureHaltsStages ==
    StageFailed("Partitioning") =>
        /\ EntriesOf("Enriching") = {}
        /\ EntriesOf("Chunking") = {}
        /\ EntriesOf("Annotating") = {}

\* The failure C7 speaks of: the stage raised, or (enrichment) the
\* enrichment of a file raised.
FailedAt(i) ==
    /\ stageLog[i].stage \in {"Enriching", "Chunking"}
    /\ ~stageLog[i].ok \/ stageLog[i].failed # {}

\* C7: a process_pdfs run in which enrichment or chunking failed still
\* executes, after the failure, the extension cleanup and the annotation
\* of every PDF it was given, and returns.
C7_CleanupAndAnnotationStillRun ==
    (run.entry = "process_pdfs" /\ ppc = "Done") =>
        \A i \in 1..Len(stageLog) :
            FailedAt(i) =>
                /\ \E j \in EntriesOf("Cleanup") : j > i
                /\ \A k \in 1..Len(run.pdf_files) :
                     \E j \in EntriesOf("Annotating") :
                        /\ j > i
                        /\ stageLog[j].file = run.pdf_files[k]

\* A finished process_pdfs run whose chunking failed and whose
\* annotation then drew pages from the partition that exists.
C7_Witness ==
    /\ run.entry = "process_pdfs"
    /\ ppc = "Done"
    /\ StageFailed("Chunking")
    /\ EntriesOf("Cleanup") # {}
    /\ \E j \in EntriesOf("Annotating") :
         stageLog[j].ok /\ stageLog[j].work # {}

\* C8: the boolean process_pdfs returns is the conjunction of the
\* outcomes of all stages: True exactly when partitioning, the
\* enrichment of every partitioned file, chunking and the annotation of
\* every PDF succeeded.
C8_ReturnIsConjunctionOfOutcomes ==
    (run.entry = "process_pdfs" /\ ppc = "Done") =>
        ret = << \A i \in 1..Len(stageLog) :
                    stageLog[i].ok /\ stageLog[i].failed = {} >>

StageOrder(stage) ==
    CASE stage = "Partitioning" -> 1
      [] stage = "Enriching" -> 2
      [] stage = "Chunking" -> 3
      [] stage = "Cleanup" -> 4
      [] stage = "Annotating" -> 5

\* C10: the stages a run executes follow the order Partitioning,
\* Enriching, Chunking, Annotating, none twice (the annotation stage
\* takes each PDF once); in process_single_pdf no stage follows a failed
\* one, a run with a failed stage is in Failed with status code 0, and
\* success is reported only in Done after all four stages succeeded.
C10_StagesInOrderFailedAbsorbing ==
    /\ \A i, j \in 1..Len(stageLog) :
          i < j =>
             \/ StageOrder(stageLog[i].stage) < StageOrder(stageLog[j].stage)
             \/ /\ stageLog[i].stage = "Annotating"
                /\ stageLog[j].stage = "Annotating"
                /\ stageLog[i].file # stageLog[j].file
    /\ run.entry = "process_single_pdf" =>
          /\ \A i \in 1..Len(stageLog) : i < Len(stageLog) => stageLog[i].ok
          /\ (\E i \in 1..Len(stageLog) : ~stageLog[i].ok) => ppc = "Failed"
          /\ ppc = "Failed" => (ret # <<>> /\ ret[1] = 0)
          /\ (ret # <<>> /\ ret[1] = 1) =>
                /\ ppc = "Done"
                /\ \A stage \in NamedStages :
                      \E i \in EntriesOf(stage) : stageLog[i].ok
          /\ ppc = "Done" => ret = <<1, "Success">>

\* A process_single_pdf run that partitioned and enriched, failed in
\* chunking and returned status code 0.
C10_Witness ==
    /\ run.entry = "process_single_pdf"
    /\ ppc = "Failed"
    /\ Len(stageLog) = 3
    /\ stageLog[1].ok
    /\ stageLog[2].ok
    /\ stageLog[3].stage = "Chunking"
    /\ ~stageLog[3].ok
    /\ ret = <<0, "Chunking failed">>

\* The positions of the stage in the log of the run.
StagePositions(stage) ==
    { i \in 1..Len(stageLog) : stageLog[i].stage = stage }

\* C24: in both entry points the normalization pass runs after chunking
\* and before every annotation, and once it has run in a call no file of
\* the chunked directory ends in ".json.json" (so a second pass would
\* find nothing to rename).
C24_CleanupBetweenChunkingAndAnnotation ==
    /\ \A i \in StagePositions("Chunking"), j \in StagePositions("Cleanup") :
         i < j
    /\ \A i \in StagePositions("Annotating") :
         \E j \in StagePositions("Cleanup") : j < i
    /\ \A i \in StagePositions("Chunking") :
         (stageLog[i].ok /\ ppc \in {"Annotating", "Returning", "Done"})
            => StagePositions("Cleanup") # {}
    /\ StagePositions("Cleanup") # {} =>
         \A file \in chunkedDir : file.n < 2

\* The pass has renamed a chunk file and an annotation followed it.
C24_Witness ==
    \E j \in StagePositions("Cleanup"), i \in StagePositions("Annotating") :
        /\ stageLog[j].work # {}
        /\ j < i
        /\ chunkedDir # {}
        /\ run.entry = "process_single_pdf"

\* The rows a table holds of one item of one document.
RowsOfItem(table, document_id, i) ==
    { k \in 1..Len(table) :
        /\ table[k].document_id = document_id
        /\ table[k].element_id = i }

\* C29: the item loop of a call makes one attempt per item of the file;
\* the rows it stores are appended in the order of the items, one more
\* row for every stored item whatever rows the document already has,
\* and the filename keeps its one record in the documents table.
C29_OneMoreRowPerItemPerCall ==
    [][\A w \in SingleWriter :
         (pc[w] = "loop" /\ pc'[w] = "idle") =>
            LET n == loc[w].n
                d == loc[w].document_id
                outs == last'.outs
                new == SubSeq(chunks', Len(chunks) + 1, Len(chunks'))
            IN /\ last'.op = "insert"
               /\ DOMAIN outs = 1..n
               /\ SubSeq(chunks', 1, Len(chunks)) = chunks
               /\ [k \in 1..Len(new) |-> new[k].element_id] =
                     SortedSeq({ i \in 1..n : outs[i].inserted })
               /\ \A k \in 1..Len(new) :
                     /\ new[k].document_id = d
                     /\ new[k].source_file = loc[w].filename
               /\ \A i \in 1..n :
                     Cardinality(RowsOfItem(chunks', d, i)) =
                        Cardinality(RowsOfItem(chunks, d, i))
                           + (IF outs[i].inserted THEN 1 ELSE 0)
               /\ documents' = documents
               /\ Cardinality({ x \in documents' :
                                  x.filename = loc[w].filename }) = 1]_vars

\* Two calls on the same file stored every item: each item of the
\* document has two rows, and the filename has one record.
C29_Witness ==
    /\ last.op = "insert"
    /\ last.result = "returned"
    /\ last.existed
    /\ Len(last.outs) >= 1
    /\ \A i \in DOMAIN last.outs :
          Cardinality(RowsOfItem(chunks, last.document_id, i)) = 2
    /\ Cardinality({ x \in documents : x.filename = last.filename }) = 1

(***************************************************************************)
(* Claims about upload_file                                                *)
(***************************************************************************)
\* Partitioning, enrichment or chunking failed in the run of the upload.
FatalStageFailed ==
    \E i \in 1..Len(stageLog) :
        /\ stageLog[i].stage \in {"Partitioning", "Enriching", "Chunking"}
        /\ ~stageLog[i].ok

\* The response reports success with the document and the mapping that
\* process_variables returned.
SuccessResponse ==
    /\ response.code = 200
    /\ response.status = "success"
    /\ last.op = "insert"
    /\ last.result = "returned"
    /\ response.document_id = last.document_id
    /\ qpc = "done"
    /\ response.processing_results = results

\* C11: a request whose pipeline started is answered with HTTP 500
\* carrying the message of the failed stage exactly when partitioning,
\* enrichment or chunking failed, and in every other case with status
\* success, the document_id and the results obtained.
C11_Http500ExactlyOnFatalStage ==
    (upc = "responded" /\ stageLog # <<>>) =>
        IF FatalStageFailed
        THEN /\ response.code = 500
             /\ response.detail = StrOfHTTPException(ret[2])
        ELSE SuccessResponse

\* C11 as amended: a PDF upload is answered with status success, the
\* document_id and the mapping of process_variables exactly when
\* process_single_pdf reported success (all four stages, annotation
\* included) and insert_chunks returned a document_id, whatever happened
\* to individual variables; otherwise it is answered with HTTP 500, whose
\* detail carries the message of process_single_pdf when that call
\* reported a failure.
C11_SuccessOnlyAfterAllStages ==
    (upc = "responded" /\ upFile \in PdfNames) =>
        /\ response.code \in {200, 500}
        /\ response.code = 200 <=>
              /\ ppc = "Done"
              /\ ret = <<1, "Success">>
              /\ \A stage \in NamedStages :
                    \E i \in EntriesOf(stage) : stageLog[i].ok
              /\ last.op = "insert"
              /\ last.result = "returned"
        /\ response.code = 200 => SuccessResponse
        /\ ppc = "Failed" =>
              /\ response.code = 500
              /\ response.detail = StrOfHTTPException(ret[2])
              /\ upFile \notin inputDir

\* An upload whose annotation failed after the three earlier stages
\* succeeded, answered with HTTP 500 and the annotation message.
C11_Witness ==
    /\ upc = "responded"
    /\ ~FatalStageFailed
    /\ StageFailed("Annotating")
    /\ response.code = 500
    /\ response.detail = <<"500", "PDF annotation failed">>

\* An upload answered with success although one variable failed: the
\* mapping holds the other one only.
C11_PartialResults ==
    /\ upc = "responded"
    /\ response.code = 200
    /\ Cardinality(DOMAIN response.processing_results) = 1

\* The chunk file of the upload is in 02_chunked.
ChunkFileStored == [name |-> upFile, n |-> 1] \in chunkedDir

\* insert_chunks has returned a document_id.
DocumentIdReturned ==
    /\ last.op = "insert"
    /\ last.result = "returned"
    /\ last.document_id # 0

Answered == upc # "responded" /\ upc' = "responded"

\* C28: an upload that fails after its file was saved is answered with
\* HTTP 500 only once the saved file is gone from the input directory,
\* whichever failure it was, and no other file of the directory is
\* touched; a name that does not end in .pdf is answered with HTTP 400
\* and no directory has changed.
C28_FailedUploadRemovesSavedFile ==
    [][Answered =>
         /\ (response'.code = 500 /\ upc # "idle") =>
               /\ upFile \in inputDir
               /\ inputDir' = inputDir \ {upFile}
         /\ response'.code = 500 => upFile' \notin inputDir'
         /\ response'.code = 400 =>
               /\ upc = "idle"
               /\ upFile' \notin PdfNames
               /\ inputDir' = inputDir
               /\ UNCHANGED <<partitionedDir, chunkedDir, annotatedDir>>
               /\ stageLog' = <<>>]_vars

\* insert_chunks raised on the chunk file of a saved upload that went
\* through the whole pipeline: HTTP 500, and the file is gone while the
\* earlier upload is still there.
C28_Witness ==
    /\ upc = "responded"
    /\ response.code = 500
    /\ last.op = "insert"
    /\ last.result = "raised"
    /\ ret[1] = 1
    /\ upFile = "a.pdf"
    /\ inputDir = {"b.pdf"}

(***************************************************************************)
(* Claims about enrich_json_with_summaries                                 *)
(***************************************************************************)
EnrichedTypes == {"NarrativeText", "Image", "Table", "Title"}

\* The run is over after the collection was loaded.
EnrichEnded == epc = "done" \/ (epc = "raised" /\ eLog # <<>>)

\* The indices the log holds.
Attempted == { eLog[k].index : k \in 1..Len(eLog) }

\* C12: whatever element fails to be enriched, an image without the
\* image_base64 payload included, the run attempts every element of the
\* four types and performs the final save.
C12_EveryElementStillProcessed ==
    EnrichEnded =>
        /\ \A i \in 1..Len(json_data) :
              json_data[i].type \in EnrichedTypes => i \in Attempted
        /\ epc = "done"
        /\ json_file = json_data

\* C13: right after an iteration that enriched an Image or a Table
\* element, the stored file equals the whole collection in memory, the
\* text changes made before it included.
C13_CheckpointAfterImageOrTable ==
    (/\ eLog # <<>>
     /\ eLog[Len(eLog)].type \in {"Image", "Table"}
     /\ eLog[Len(eLog)].outcome = "enriched") =>
        json_file = json_data

\* A table was just enriched after a text had been tagged, and the file
\* holds the tagged text and the summary.
C13_Witness ==
    /\ Len(eLog) >= 2
    /\ epc # "done"
    /\ eLog[Len(eLog)].type = "Table"
    /\ eLog[Len(eLog)].outcome = "enriched"
    /\ eLog[1].type = "NarrativeText"
    /\ eLog[1].outcome = "enriched"
    /\ json_file[eLog[1].index].text = "tagged"
    /\ json_file[eLog[Len(eLog)].index].text = "summary"

\* The elements whose text in memory is not the text in the file.
Unsaved ==
    { i \in 1..Len(json_data) : json_data[i].text # json_file[i].text }

\* C14: at every point of a run at most one element has a new text that
\* the stored file does not hold.
C14_AtMostOneUnsavedElement ==
    Len(json_data) = Len(json_file) => Cardinality(Unsaved) <= 1

\* The place of a type in the order of C15.
TypeRank(type) ==
    CASE type = "NarrativeText" -> 1
      [] type = "Image" -> 2
      [] type = "Table" -> 3
      [] type = "Title" -> 4
      [] OTHER -> 5

\* C15: the attempts are ordered NarrativeText, Image, Table, Title and,
\* within a type, by rising index (so none is attempted twice); when an
\* element is attempted, every element of an earlier type has been.
C15_TypesInFixedOrder ==
    /\ \A a, b \in 1..Len(eLog) :
          a < b =>
             \/ TypeRank(eLog[a].type) < TypeRank(eLog[b].type)
             \/ /\ eLog[a].type = eLog[b].type
                /\ eLog[a].index < eLog[b].index
    /\ \A b \in 1..Len(eLog) :
          /\ json_data[eLog[b].index].type = eLog[b].type
          /\ \A i \in 1..Len(json_data) :
                TypeRank(json_data[i].type) < TypeRank(eLog[b].type) =>
                   \E a \in 1..(b - 1) : eLog[a].index = i

\* A finished run over a title, a table and a text, stored in that
\* order and attempted in the reverse one.
C15_Witness ==
    /\ epc = "done"
    /\ Len(eLog) = 3
    /\ eLog[1].index = 3
    /\ eLog[2].index = 2
    /\ eLog[3].index = 1
    /\ eLog[1].type = "NarrativeText"
    /\ eLog[2].type = "Table"
    /\ eLog[3].type = "Title"

\* The step is an iteration of one of the four loops.
IterationStep == Len(eLog') = Len(eLog) + 1

TagReturned == tagPass = TagPasses + 1

\* A tag marker: <NAME> or </NAME>.
TagMarker ==
    Cat(<<Chars({"<"}), Opt(Chars({"/"})), Plus(Chars(Capitals)),
          Chars({">"})>>)

RECURSIVE Without(_, _)
\* The text without the spans (given from the last to the first).
Without(s, spans) ==
    IF spans = <<>> THEN s
    ELSE Without(SubSeq(s, 1, Head(spans)[1] - 1)
                 \o SubSeq(s, Head(spans)[2], Len(s)), Tail(spans))

\* strip_tags: the text without its tag markers.
StripTags(s) == Without(s, Reversed(FindIter(TagMarker, s, 1)))

\* The positions at which part occurs in s.
Occurrences(part, s) ==
    { i \in 1..Len(s) :
        /\ i + Len(part) - 1 <= Len(s)
        /\ SubSeq(s, i, i + Len(part) - 1) = part }

SampleLicensor ==
    <<"S", "A", "M", "P", "L", "E", " ",
      "L", "I", "C", "E", "N", "S", "O", "R">>

DateRange ==
    <<"0", "1", "/", "0", "7", "/", "2", "0", "2", "0", "-",
      "0", "5", "/", "0", "1", "/", "2", "0", "2", "3">>

\* C18: removing the tag markers from the text enrich_title returns gives
\* back its argument exactly, for every title.
C18_StripTagsGivesInput ==
    TagReturned => StripTags(enriched_text) = title_text

\* C19: for a title that contains SAMPLE LICENSOR (no corporate suffix),
\* the returned text holds <PARTY>SAMPLE LICENSOR</PARTY> exactly once and
\* no <COMPANY> tag.
C19_SampleLicensorIsPartyOnly ==
    (TagReturned /\ Occurrences(SampleLicensor, title_text) # {})
    => /\ Cardinality(Occurrences(PartyTag \o SampleLicensor
                                  \o <<"<", "/", "P", "A", "R", "T", "Y", ">">>,
                                  enriched_text)) = 1
       /\ Occurrences(CompanyTag, enriched_text) = {}

\* C20: for the title "license period is 01/07/2020-05/01/2023" the
\* returned text holds exactly one <DATE> tag, and it encloses the whole
\* range 01/07/2020-05/01/2023.
C20_DateRangeIsOneSpan ==
    (TagReturned /\ title_text = LicensePeriodTitle)
    => /\ Cardinality(Occurrences(DateTag, enriched_text)) = 1
       /\ Occurrences(DateTag \o DateRange
                      \o <<"<", "/", "D", "A", "T", "E", ">">>,
                      enriched_text) # {}

\* An opening marker <NAME>, and a closing marker as enrich_title writes
\* it: </NAME, with or without the final ">".
OpeningMarker ==
    Cat(<<Chars({"<"}), Plus(Chars(Capitals)), Chars({">"})>>)

ClosingMarker ==
    Cat(<<Chars({"<"}), Chars({"/"}), Plus(Chars(Capitals)),
          Opt(Chars({">"}))>>)

AnyMarker == Alt(<<OpeningMarker, ClosingMarker>>)

\* The span lies within the text of a marker of s.
InMarker(s, span) ==
    \E m \in Range(FindIter(AnyMarker, s, 1)) :
        m[1] <= span[1] /\ span[2] <= m[2]

\* The number of tags that are open at position i of s.
OpenTagsAt(s, i) ==
    Cardinality({ m \in Range(FindIter(OpeningMarker, s, 1)) : m[2] <= i })
    - Cardinality({ m \in Range(FindIter(ClosingMarker, s, 1)) : m[2] <= i })

\* The matches of the single-word pattern k in s that are words of the
\* text (not marker text) outside every tag.
UntaggedMatches(s, k) ==
    { span \in Range(FindIter(single_word_patterns[k][1], s, 1)) :
        ~InMarker(s, span) /\ OpenTagsAt(s, span[1]) <= 0 }

\* C21: a single-word match is tagged if and only if it lies outside
\* every existing tag: a pass of the second loop adds exactly one tag for
\* each match that is outside every tag, and none for the others.
C21_TaggedIffOutsideEveryTag ==
    [][ApplySinglePattern =>
         LET k == tagPass - Len(phrase_patterns)
             tag_type == single_word_patterns[k][2]
         IN Cardinality(Occurrences(tag_type, enriched_text'))
            - Cardinality(Occurrences(tag_type, enriched_text))
            = Cardinality(UntaggedMatches(enriched_text, k))]_vars

\* The markers of s, in order, each as its text.
MarkersOf(s) ==
    LET spans == FindIter(TagMarker, s, 1)
    IN [k \in 1..Len(spans) |-> SubSeq(s, spans[k][1], spans[k][2] - 1)]

RECURSIVE Nested(_, _)
\* The markers pair up: each closing marker closes the tag opened last.
Nested(markers, open) ==
    IF markers = <<>> THEN open = <<>>
    ELSE IF Head(markers)[2] # "/"
    THEN Nested(Tail(markers), <<StripChars(Head(markers), {"<", ">"})>> \o open)
    ELSE /\ open # <<>>
         /\ Head(open) = StripChars(Head(markers), {"<", ">", "/"})
         /\ Nested(Tail(markers), Tail(open))

\* Every "<" and ">" of s belongs to a marker <NAME> or </NAME>.
Intact(s) ==
    LET n == Len(FindIter(TagMarker, s, 1))
    IN /\ Cardinality({ i \in 1..Len(s) : s[i] = "<" }) = n
       /\ Cardinality({ i \in 1..Len(s) : s[i] = ">" }) = n

\* C30: in the text enrich_title returns every marker is intact (no
\* marker inside the text of another) and the markers are balanced.
C30_MarkersIntactAndBalanced ==
    TagReturned => Intact(enriched_text) /\ Nested(MarkersOf(enriched_text), <<>>)

(***************************************************************************)
(* Claims about the oracle calls                                           *)
(***************************************************************************)
\* The k-th attempt of the enrichment called an oracle, which raised.
OracleFailed(k) ==
    /\ eLog[k].outcome = "failed"
    /\ \/ eLog[k].type = "NarrativeText"
       \/ /\ eLog[k].type \in {"Image", "Table"}
          /\ json_data[eLog[k].index].image_base64 = "b64"

\* The i-th variable's embedding or generation call failed.
VariableOracleFailed(i) ==
    ~qLog[i].embedded \/ (qLog[i].generated /\ ~qLog[i].answered)

\* C25: an oracle call that raises during enrichment, chunk embedding,
\* backfill, retrieval or generation does not end the run: the element
\* loop, the chunk loop and the variable loop go on with the next unit.
C25_OracleFailuresAreNotFatal ==
    /\ \A k \in 1..Len(eLog) :
         (OracleFailed(k) /\ k = Len(eLog)) =>
            /\ epc \in {"NarrativeText", "Image", "Table", "Title",
                        "final", "done"}
            /\ epc \in {"NarrativeText", "Image", "Table", "Title"} =>
                  ElementsOf(json_data, epc)[ePos]
                     \notin { eLog[j].index : j \in 1..Len(eLog) }
            /\ epc \in {"final", "done"} =>
                  \A i \in 1..Len(json_data) :
                     json_data[i].type
                        \in {"NarrativeText", "Image", "Table", "Title"}
                     => \E j \in 1..Len(eLog) : eLog[j].index = i
    /\ (last.op = "insert" /\ last.result = "returned") =>
         \A k \in 1..Len(last.outs) :
            (last.outs[k].inserted /\ ~last.outs[k].embedded) =>
               /\ last.rows[k] # 0
               /\ chunks[last.rows[k]].embedding = <<>>
               /\ \A j \in (k + 1)..Len(last.outs) :
                     last.outs[j].inserted => last.rows[j] # 0
    /\ (last.op = "embed" /\ last.result = "returned") =>
         /\ DOMAIN last.outs = { last.todo[k] : k \in 1..Len(last.todo) }
         /\ \A i \in DOMAIN last.outs :
               (last.outs[i].embedded /\ last.outs[i].stored)
                  => chunks[i].embedding # <<>>
    /\ \A i \in 1..Len(qLog) :
         VariableOracleFailed(i) =>
            /\ i = Len(qLog) => qIdx = i + 1
            /\ (i = Len(qLog) /\ i < Len(qVars)) => qpc = "loop"
            /\ qpc = "done" => Len(qLog) = Len(qVars)

\* A finished enrichment in which the oracle raised on an image and the
\* table after it was summarized.
C25_Witness ==
    /\ epc = "done"
    /\ \E k \in 1..Len(eLog) :
         /\ OracleFailed(k)
         /\ eLog[k].type = "Image"
         /\ k < Len(eLog)
         /\ eLog[k + 1].type = "Table"
         /\ eLog[k + 1].outcome = "enriched"

====
